---- MODULE Spec2Model ----
(***************************************************************************)
(* Model of the WhatsApp domain bot of src/main.py: the domain query       *)
(* parser, the lookup cache and batch availability checker, the result     *)
(* formatter and the per-user conversation state machine                   *)
(* (class SmartDomainBot), driven by inbound text messages and button      *)
(* clicks.                                                                 *)
(*                                                                         *)
(* Python strings are sequences of one-character strings, so that len(),   *)
(* strip(), lower(), startswith(), `in` and the regular expressions of     *)
(* DOMAIN_PATTERNS are computed as the code computes them.                 *)
(*                                                                         *)
(* A coroutine runs without interruption until it suspends in an HTTP      *)
(* call (asyncio): each action below is one such uninterrupted segment of  *)
(* a handler, from a message's arrival or an HTTP response to the next     *)
(* suspension or the handler's return.                                     *)
(***************************************************************************)
EXTENDS Naturals, Sequences, FiniteSets, TLC

(***************************************************************************)
(* Bounds of the model.                                                    *)
(***************************************************************************)
\* A fan-out search checks the first MaxBatch domains of domains_to_check.
MaxBatch == 2
\* No new message of a user is accepted once the user's finished and
\* running searches number MaxHistory.
MaxHistory == 2
\* Longest input sequence of a direct call of check_domains_batch.
MaxInput == 2
\* most entries of each bucket handed to format_domain_results on its own
MaxAvailable == 6
MaxUnavailable == 4
MaxErrors == 2
\* longest base name handed to parse_domain_input on its own
MaxName == 3

(***************************************************************************)
(* Strings.                                                                *)
(***************************************************************************)
None == <<"None">>

LowerLetters == <<"a", "b", "c", "d", "e", "f", "g", "h", "i", "j", "k", "l", "m", "n", "o", "p", "q", "r", "s", "t", "u", "v", "w", "x", "y", "z">>
UpperLetters == <<"A", "B", "C", "D", "E", "F", "G", "H", "I", "J", "K", "L", "M", "N", "O", "P", "Q", "R", "S", "T", "U", "V", "W", "X", "Y", "Z">>
Digits == <<"0", "1", "2", "3", "4", "5", "6", "7", "8", "9">>

Range(s) == {s[i] : i \in 1..Len(s)}

\* str.isspace for the characters of the model's alphabet
IsSpace(ch) == ch \in {" ", "\t", "\n"}

\* one character of str.lower()
LowerChar(ch) ==
    IF \E i \in 1..Len(UpperLetters) : UpperLetters[i] = ch
    THEN LowerLetters[CHOOSE i \in 1..Len(UpperLetters) : UpperLetters[i] = ch]
    ELSE ch

\* str.lower()
lower(s) == [i \in 1..Len(s) |-> LowerChar(s[i])]

RECURSIVE lstrip(_)
lstrip(s) == IF s # <<>> /\ IsSpace(Head(s)) THEN lstrip(Tail(s)) ELSE s

RECURSIVE rstrip(_)
rstrip(s) ==
    IF s # <<>> /\ IsSpace(s[Len(s)]) THEN rstrip(SubSeq(s, 1, Len(s) - 1)) ELSE s

\* str.strip()
strip(s) == rstrip(lstrip(s))

\* str.startswith(p)
startswith(s, p) == Len(s) >= Len(p) /\ SubSeq(s, 1, Len(p)) = p

\* p in s, for strings
contains(s, p) ==
    \E i \in 1..(Len(s) + 1) : i + Len(p) - 1 <= Len(s) /\ SubSeq(s, i, i + Len(p) - 1) = p

\* the part of s after its first i characters
drop(s, i) == SubSeq(s, i + 1, Len(s))

\* the length of the longest whitespace prefix of s (the match of \s* at 0)
RECURSIVE spaces(_)
spaces(s) == IF s # <<>> /\ IsSpace(Head(s)) THEN 1 + spaces(Tail(s)) ELSE 0

(***************************************************************************)
(* DOMAIN_EXTENSIONS and DOMAIN_PATTERNS.                                  *)
(***************************************************************************)
\* the keys of DOMAIN_EXTENSIONS, in the dict's order
DOMAIN_EXTENSIONS ==
    << <<".", "k", "e">>, <<".", "c", "o", ".", "k", "e">>, <<".", "o", "r", ".", "k", "e">>, <<".", "a", "c", ".", "k", "e">>, <<".", "g", "o", ".", "k", "e">>,
       <<".", "n", "e", ".", "k", "e">>, <<".", "s", "c", ".", "k", "e">>, <<".", "m", "e", ".", "k", "e">>, <<".", "i", "n", "f", "o", ".", "k", "e">> >>

\* the alternatives of the second group of DOMAIN_PATTERNS['full_domain']
FullExtensions ==
    { <<"k", "e">>, <<"c", "o", ".", "k", "e">>, <<"o", "r", ".", "k", "e">>, <<"a", "c", ".", "k", "e">>, <<"g", "o", ".", "k", "e">>,
      <<"n", "e", ".", "k", "e">>, <<"s", "c", ".", "k", "e">>, <<"m", "e", ".", "k", "e">>, <<"i", "n", "f", "o", ".", "k", "e">> }

\* the alternatives of the second group of DOMAIN_PATTERNS['partial_extension']
PartialExtensions ==
    { <<"c", "o">>, <<"o", "r">>, <<"a", "c">>, <<"g", "o">>, <<"n", "e">>, <<"s", "c">>, <<"m", "e">>, <<"i", "n", "f", "o">> }

\* [a-z0-9-] under re.IGNORECASE
IsNameChar(ch) ==
    ch \in Range(LowerLetters) \cup Range(UpperLetters) \cup Range(Digits) \cup {"-"}

\* ^([a-z0-9-]+)$ : DOMAIN_PATTERNS['base_domain']
MatchesName(s) == s # <<>> /\ \A i \in 1..Len(s) : IsNameChar(s[i])

\* index of the first "." of s, 0 when there is none
FirstDot(s) ==
    IF \E i \in 1..Len(s) : s[i] = "."
    THEN CHOOSE i \in 1..Len(s) : s[i] = "." /\ \A j \in 1..(i - 1) : s[j] # "."
    ELSE 0

\* ^([a-z0-9-]+)\.(<one of exts>)$ : the first group holds no ".", so it ends
\* at the first "." of s and the second group is all that follows
MatchesDotted(s, exts) ==
    LET d == FirstDot(s)
    IN  /\ d > 1
        /\ MatchesName(SubSeq(s, 1, d - 1))
        /\ lower(drop(s, d)) \in exts

Group1(s) == SubSeq(s, 1, FirstDot(s) - 1)
Group2(s) == drop(s, FirstDot(s))

\* parse_domain_input without the lower() of line 160
parse_domain_input_no_lower(input) ==
    LET text == strip(input)
    IN  IF MatchesDotted(text, FullExtensions)
        THEN [type |-> "full_domain", base |-> Group1(text),
              extension |-> Group2(text), domains_to_check |-> <<text>>]
        ELSE IF MatchesDotted(text, PartialExtensions)
        THEN LET full_ext == Group2(text) \o <<".", "k", "e">>
             IN  [type |-> "partial_extension", base |-> Group1(text),
                  extension |-> full_ext,
                  domains_to_check |-> <<Group1(text) \o <<".">> \o full_ext>>]
        ELSE IF MatchesName(text)
        THEN [type |-> "base_domain", base |-> text, extension |-> None,
              domains_to_check |->
                  [i \in 1..Len(DOMAIN_EXTENSIONS) |-> text \o DOMAIN_EXTENSIONS[i]]]
        ELSE [type |-> "invalid", base |-> None, extension |-> None,
              domains_to_check |-> <<>>]

\* parse_domain_input with the last extension left out of the fan-out
parse_domain_input_short_fan_out(input) ==
    LET text == lower(strip(input))
    IN  IF MatchesDotted(text, FullExtensions)
        THEN [type |-> "full_domain", base |-> Group1(text),
              extension |-> Group2(text), domains_to_check |-> <<text>>]
        ELSE IF MatchesDotted(text, PartialExtensions)
        THEN LET full_ext == Group2(text) \o <<".", "k", "e">>
             IN  [type |-> "partial_extension", base |-> Group1(text),
                  extension |-> full_ext,
                  domains_to_check |-> <<Group1(text) \o <<".">> \o full_ext>>]
        ELSE IF MatchesName(text)
        THEN [type |-> "base_domain", base |-> text, extension |-> None,
              domains_to_check |->
                  [i \in 1..(Len(DOMAIN_EXTENSIONS) - 1) |-> text \o DOMAIN_EXTENSIONS[i]]]
        ELSE [type |-> "invalid", base |-> None, extension |-> None,
              domains_to_check |-> <<>>]

\* parse_domain_input with the short code left unexpanded (line 177 without ".ke")
parse_domain_input_unexpanded(input) ==
    LET text == lower(strip(input))
    IN  IF MatchesDotted(text, FullExtensions)
        THEN [type |-> "full_domain", base |-> Group1(text),
              extension |-> Group2(text), domains_to_check |-> <<text>>]
        ELSE IF MatchesDotted(text, PartialExtensions)
        THEN LET full_ext == Group2(text)
             IN  [type |-> "partial_extension", base |-> Group1(text),
                  extension |-> full_ext,
                  domains_to_check |-> <<Group1(text) \o <<".">> \o full_ext>>]
        ELSE IF MatchesName(text)
        THEN [type |-> "base_domain", base |-> text, extension |-> None,
              domains_to_check |->
                  [i \in 1..Len(DOMAIN_EXTENSIONS) |-> text \o DOMAIN_EXTENSIONS[i]]]
        ELSE [type |-> "invalid", base |-> None, extension |-> None,
              domains_to_check |-> <<>>]

\* SmartDomainBot.parse_domain_input
parse_domain_input(input) ==
    LET text == lower(strip(input))
    IN  IF MatchesDotted(text, FullExtensions)
        THEN [type |-> "full_domain", base |-> Group1(text),
              extension |-> Group2(text), domains_to_check |-> <<text>>]
        ELSE IF MatchesDotted(text, PartialExtensions)
        THEN LET full_ext == Group2(text) \o <<".", "k", "e">>
             IN  [type |-> "partial_extension", base |-> Group1(text),
                  extension |-> full_ext,
                  domains_to_check |-> <<Group1(text) \o <<".">> \o full_ext>>]
        ELSE IF MatchesName(text)
        THEN [type |-> "base_domain", base |-> text, extension |-> None,
              domains_to_check |->
                  [i \in 1..Len(DOMAIN_EXTENSIONS) |-> text \o DOMAIN_EXTENSIONS[i]]]
        ELSE [type |-> "invalid", base |-> None, extension |-> None,
              domains_to_check |-> <<>>]

\* SmartDomainBot.is_greeting
greetings ==
    { <<"h", "i">>, <<"h", "e", "l", "l", "o">>, <<"h", "e", "y">>, <<"h", "i", "i">>, <<"h", "e", "l", "l", "o", "o">>, <<"s", "t", "a", "r", "t">>, <<"b", "e", "g", "i", "n">>,
      <<"m", "e", "n", "u">>, <<"m", "a", "i", "n">>, <<"h", "o", "m", "e">>, <<"h", "e", "l", "p">>, <<"h", "o", "l", "a">>, <<"j", "a", "m", "b", "o">>, <<"h", "a", "b", "a", "r", "i">> }

\* is_greeting without the rule on the length of the text
is_greeting_no_length_rule(text) ==
    LET text_clean == strip(lower(text))
    IN  \/ text_clean \in greetings
        \/ \E g \in { <<"g", "o", "o", "d", " ", "m", "o", "r", "n", "i", "n", "g">>, <<"g", "o", "o", "d", " ", "a", "f", "t", "e", "r", "n", "o", "o", "n">>, <<"g", "o", "o", "d", " ", "e", "v", "e", "n", "i", "n", "g">> } :
               contains(text_clean, g)

is_greeting(text) ==
    LET text_clean == strip(lower(text))
    IN  \/ text_clean \in greetings
        \/ Len(text_clean) <= 3
        \/ \E g \in { <<"g", "o", "o", "d", " ", "m", "o", "r", "n", "i", "n", "g">>, <<"g", "o", "o", "d", " ", "a", "f", "t", "e", "r", "n", "o", "o", "n">>, <<"g", "o", "o", "d", " ", "e", "v", "e", "n", "i", "n", "g">> } :
               contains(text_clean, g)

(***************************************************************************)
(* State.                                                                  *)
(***************************************************************************)
\* webhook deliveries that can be in progress at once
Slots == {"h1", "h2"}
\* senders (phone numbers)
Users == {"u1", "u2"}

VARIABLES
    user_states,    \* the dict user_states: sender -> state dict
    domain_cache,   \* the dict domain_cache: domain -> record of the lookup API
    credentials,    \* ACCESS_TOKEN and PHONE_NUMBER_ID are both set
    task,           \* per slot: the handler coroutine running in it
    message_statuses \* the dict message_statuses: its records in insertion order

vars == <<user_states, domain_cache, credentials, task, message_statuses>>

\* outcomes of one GET of DOMAIN_CHECK_URL (lines 231-260)
LookupOutcomes ==
    {"available", "unavailable", "api_error", "http_error", "timeout", "exception"}

\* outcomes of one POST to the messages endpoint (lines 357-386)
SendOutcomes == {"ok", "failed", "exception"}

EmptyResults == [available |-> <<>>, unavailable |-> <<>>, errors |-> <<>>]

\* a slot with no coroutine in it
IdleTask ==
    [pc |-> "idle", cont |-> "", kind |-> "", sender |-> "", input |-> <<>>,
     button_id |-> "", entry |-> <<>>, domain_input |-> None, parsed |-> <<>>, base |-> None, domains |-> <<>>,
     pos |-> 1,
     results |-> EmptyResults, results_text |-> <<>>, sent |-> <<>>,
     requests |-> <<>>, params |-> <<>>, outcomes |-> <<>>, posts |-> 0,
     ret |-> "", message_id |-> 0]

\* a state dict created at a step that is not one of the three
NewUserState_extension_select ==
    [step |-> "extension_select", search_history |-> <<>>, current_domain |-> None,
     preferred_extensions |-> <<>>]

\* the state dict get_user_state creates (the last_activity timestamp is not
\* modelled)
NewUserState ==
    [step |-> "greeting", search_history |-> <<>>, current_domain |-> None,
     preferred_extensions |-> <<>>]

\* SmartDomainBot.get_user_state: the dict user_states after the call
get_user_state(us, user_phone) ==
    IF user_phone \in DOMAIN us THEN us ELSE (user_phone :> NewUserState) @@ us

\* update_user_state applying the updates to the state of every known user
update_user_state_every_user(us, user_phone, updates) ==
    LET us1 == get_user_state(us, user_phone)
    IN  [u \in DOMAIN us1 |-> updates @@ us1[u]]

\* SmartDomainBot.update_user_state: dict.update of the user's state
update_user_state(us, user_phone, updates) ==
    LET us1 == get_user_state(us, user_phone)
    IN  [us1 EXCEPT ![user_phone] = updates @@ us1[user_phone]]

(***************************************************************************)
(* The result formatter.                                                   *)
(***************************************************************************)
Take(s, n) == SubSeq(s, 1, IF Len(s) < n THEN Len(s) ELSE n)

\* line 281: the extension of a listed domain, "" when it has no dot
extension_of(domain) ==
    IF FirstDot(domain) > 0 THEN drop(domain, FirstDot(domain) - 1) ELSE <<>>

\* format_domain_results without the cap of line 278 on the listed domains
format_domain_results_uncapped(results, base_domain) ==
    LET available == results.available
        unavailable == results.unavailable
        errors == results.errors
    IN  IF available = <<>> /\ unavailable = <<>>
    THEN [body |-> "couldnt_check", base |-> base_domain]
    ELSE [body |-> "results", base |-> base_domain,
          message_parts |->
              (IF available # <<>>
               THEN <<[part |-> "available_header"]>>
                    \o [i \in 1..Len(available) |->
                           [part |-> "available", domain |-> available[i].domain,
                            extension |-> extension_of(available[i].domain)]]
               ELSE <<>>)
              \o (IF unavailable # <<>>
                  THEN <<[part |-> "unavailable_count", count |-> Len(unavailable)]>>
                       \o (IF Len(unavailable) <= 3
                           THEN [i \in 1..Len(unavailable) |->
                                    [part |-> "unavailable",
                                     domain |-> unavailable[i].domain]]
                           ELSE <<>>)
                  ELSE <<>>)
              \o (IF errors # <<>>
                  THEN <<[part |-> "errors_count", count |-> Len(errors)]>>
                  ELSE <<>>),
          call_to_action |->
              IF available # <<>> THEN "ready_to_register" ELSE "try_variations"]

\* SmartDomainBot.format_domain_results: the lines of the message text, each
\* by what it shows (descriptions and prices are not modelled)
format_domain_results(results, base_domain) ==
    LET available == results.available
        unavailable == results.unavailable
        errors == results.errors
    IN  IF available = <<>> /\ unavailable = <<>>
    THEN [body |-> "couldnt_check", base |-> base_domain]
    ELSE [body |-> "results", base |-> base_domain,
          message_parts |->
              (IF available # <<>>
               THEN <<[part |-> "available_header"]>>
                    \o [i \in 1..Len(Take(available, 5)) |->
                           [part |-> "available", domain |-> available[i].domain,
                            extension |-> extension_of(available[i].domain)]]
               ELSE <<>>)
              \o (IF unavailable # <<>>
                  THEN <<[part |-> "unavailable_count", count |-> Len(unavailable)]>>
                       \o (IF Len(unavailable) <= 3
                           THEN [i \in 1..Len(unavailable) |->
                                    [part |-> "unavailable",
                                     domain |-> unavailable[i].domain]]
                           ELSE <<>>)
                  ELSE <<>>)
              \o (IF errors # <<>>
                  THEN <<[part |-> "errors_count", count |-> Len(errors)]>>
                  ELSE <<>>),
          call_to_action |->
              IF available # <<>> THEN "ready_to_register" ELSE "try_variations"]

(***************************************************************************)
(* A handler in progress is a configuration [us, cache, creds, t]: the two *)
(* dicts, whether the credentials are set, and the handler's own record.   *)
(* The operators below take a configuration at one point of the code and  *)
(* give the configuration at the handler's next suspension (t.pc = "send"  *)
(* or "lookup") or return (t.pc = "done").                                 *)
(***************************************************************************)
\* F applied to the value of v: Python evaluates the argument of a call once,
\* before the call
Strict(F(_), v) == CHOOSE r \in {F(x) : x \in {v}} : TRUE

RECURSIVE send_interactive_message(_, _, _, _, _)
RECURSIVE process_domain_search_results(_)

\* lines 215-221: a cached record is routed by its available flag
route_cached(results, cached) ==
    IF cached.available
    THEN [results EXCEPT !.available = Append(@, cached)]
    ELSE [results EXCEPT !.unavailable = Append(@, cached)]

\* SmartDomainBot.check_domains_batch, lines 213-236: the loop from domain
\* t.pos on, up to the next GET (t.pc = "lookup") or the return
\* (t.pc = "batch_returned")
\* urllib.parse.quote: letters, digits and "_.-~/" are kept, any other
\* character is replaced by its percent code
PercentCodes == (" " :> <<"%", "2", "0">>) @@ ("$" :> <<"%", "2", "4">>)

RECURSIVE quote(_)
quote(s) ==
    IF s = <<>> THEN <<>>
    ELSE (IF Head(s) \in DOMAIN PercentCodes THEN PercentCodes[Head(s)] ELSE <<Head(s)>>)
         \o quote(Tail(s))

\* lines 225-229: the query parameters of the GET for one domain
request_params(domain) ==
    [domain |-> quote(domain), include_pricing |-> "true",
     include_suggestions |-> "false"]

RECURSIVE check_domains_batch(_)

\* check_domains_batch without the `continue` of line 221: a cached domain is
\* routed and then looked up as well
check_domains_batch_no_continue(c) ==
    IF c.t.pos > Len(c.t.domains)
    THEN [c EXCEPT !.t.pc = "batch_returned"]
    ELSE LET domain == c.t.domains[c.t.pos]
         IN  IF domain \in DOMAIN c.cache
             THEN [c EXCEPT !.t.results = route_cached(@, c.cache[domain]),
                            !.t.pc = "lookup", !.t.requests = Append(@, domain)]
             ELSE [c EXCEPT !.t.pc = "lookup", !.t.requests = Append(@, domain)]

\* check_domains_batch without the cache check of line 215
check_domains_batch_no_cache(c) ==
    IF c.t.pos > Len(c.t.domains)
    THEN [c EXCEPT !.t.pc = "batch_returned"]
    ELSE [c EXCEPT !.t.pc = "lookup", !.t.requests = Append(@, c.t.domains[c.t.pos])]

\* check_domains_batch returning once the first domain has been handled
check_domains_batch_first_only(c) ==
    IF c.t.pos > 1
    THEN [c EXCEPT !.t.pc = "batch_returned"]
    ELSE LET domain == c.t.domains[c.t.pos]
         IN  IF domain \in DOMAIN c.cache
             THEN [c EXCEPT !.t.results = route_cached(@, c.cache[domain]),
                            !.t.pos = @ + 1, !.t.pc = "batch_returned"]
             ELSE [c EXCEPT !.t.pc = "lookup", !.t.requests = Append(@, domain),
                            !.t.params = Append(@, request_params(domain))]

check_domains_batch(c) ==
    IF c.t.pos > Len(c.t.domains)
    THEN [c EXCEPT !.t.pc = "batch_returned"]
    ELSE LET domain == c.t.domains[c.t.pos]
         IN  IF domain \in DOMAIN c.cache
             THEN check_domains_batch(
                      [c EXCEPT !.t.results = route_cached(@, c.cache[domain]),
                                !.t.pos = @ + 1])
             ELSE [c EXCEPT !.t.pc = "lookup", !.t.requests = Append(@, domain),
                            !.t.params = Append(@, request_params(domain))]

\* the error text of lines 251-260
ErrorText(outcome) ==
    CASE outcome = "api_error" -> "API error"
      [] outcome = "http_error" -> "HTTP 500"
      [] outcome = "timeout" -> "Request timeout"
      [] outcome = "exception" -> "str(e)"

\* lookup_response with a failed lookup ending the loop
lookup_response_abort(c, outcome) ==
    LET domain == c.t.domains[c.t.pos]
    IN  IF outcome \in {"available", "unavailable"}
        THEN LET domain_data == [domain |-> domain, available |-> outcome = "available"]
             IN  [c EXCEPT !.cache = (domain :> domain_data) @@ c.cache,
                           !.t.results = route_cached(@, domain_data),
                           !.t.pos = @ + 1]
        ELSE [c EXCEPT !.t.results.errors =
                           Append(@, [domain |-> domain, error |-> ErrorText(outcome)]),
                       !.t.pos = Len(c.t.domains) + 1]

\* lookup_response with the record cached before the success flag is tested
lookup_response_cache_first(c, outcome) ==
    LET domain == c.t.domains[c.t.pos]
        domain_data == [domain |-> domain, available |-> outcome = "available"]
    IN  IF outcome \in {"available", "unavailable"}
        THEN [c EXCEPT !.cache = (domain :> domain_data) @@ c.cache,
                       !.t.results = route_cached(@, domain_data),
                       !.t.pos = @ + 1]
        ELSE IF outcome = "api_error"
        THEN [c EXCEPT !.cache = (domain :> domain_data) @@ c.cache,
                       !.t.results.errors =
                           Append(@, [domain |-> domain, error |-> ErrorText(outcome)]),
                       !.t.pos = @ + 1]
        ELSE [c EXCEPT !.t.results.errors =
                           Append(@, [domain |-> domain, error |-> ErrorText(outcome)]),
                       !.t.pos = @ + 1]

\* lines 237-260: the response of the GET for domain t.domains[t.pos]
lookup_response(c, outcome) ==
    LET domain == c.t.domains[c.t.pos]
    IN  IF outcome \in {"available", "unavailable"}
        THEN LET domain_data == [domain |-> domain, available |-> outcome = "available"]
             IN  [c EXCEPT !.cache = (domain :> domain_data) @@ c.cache,
                           !.t.results = route_cached(@, domain_data),
                           !.t.pos = @ + 1]
        ELSE [c EXCEPT !.t.results.errors =
                           Append(@, [domain |-> domain, error |-> ErrorText(outcome)]),
                       !.t.pos = @ + 1]

\* the caller of check_domains_batch giving up when no lookup succeeded
resume_batch_give_up(c) ==
    Strict(LAMBDA c1 : IF c1.t.pc = "lookup" THEN c1
                       ELSE IF c1.t.kind = "direct" THEN [c1 EXCEPT !.t.pc = "done"]
                       ELSE IF c1.t.results.available = <<>>
                               /\ c1.t.results.unavailable = <<>>
                       THEN [c1 EXCEPT !.t.pc = "done"]
                       ELSE process_domain_search_results(c1),
           check_domains_batch(c))

\* the loop of check_domains_batch resumed, and on its return the rest of its
\* caller
resume_batch(c) ==
    Strict(LAMBDA c1 : IF c1.t.pc = "lookup" THEN c1
                       ELSE IF c1.t.kind = "direct" THEN [c1 EXCEPT !.t.pc = "done"]
                       ELSE process_domain_search_results(c1),
           check_domains_batch(c))

\* lines 506-510 with the base appended to search_history a second time
process_domain_search_finish_twice(c) ==
    LET sender == c.t.sender
    IN  [c EXCEPT !.us = update_user_state(c.us, sender,
                      [step |-> "results",
                       last_results |-> c.t.results,
                       search_history |->
                           get_user_state(c.us, sender)[sender].search_history
                               \o <<c.t.base, c.t.base>>]),
                  !.t.pc = "done"]

\* lines 506-510 with current_domain written back together with the results
process_domain_search_finish_own_domain(c) ==
    LET sender == c.t.sender
    IN  [c EXCEPT !.us = update_user_state(c.us, sender,
                      [step |-> "results",
                       last_results |-> c.t.results,
                       current_domain |-> c.t.base,
                       search_history |->
                           get_user_state(c.us, sender)[sender].search_history
                               \o <<c.t.base>>]),
                  !.t.pc = "done"]

\* lines 506-510 with search_history read when the handler started, not
\* at line 509
process_domain_search_finish_stale_history(c) ==
    LET sender == c.t.sender
    IN  [c EXCEPT !.us = update_user_state(c.us, sender,
                      [step |-> "results",
                       last_results |-> c.t.results,
                       search_history |->
                           c.t.entry.state.search_history \o <<c.t.base>>]),
                  !.t.pc = "done"]

\* SmartDomainBot.process_domain_search, lines 506-510
process_domain_search_finish(c) ==
    LET sender == c.t.sender
    IN  [c EXCEPT !.us = update_user_state(c.us, sender,
                      [step |-> "results",
                       last_results |-> c.t.results,
                       search_history |->
                           get_user_state(c.us, sender)[sender].search_history
                               \o <<c.t.base>>]),
                  !.t.pc = "done"]

\* a caller of send_interactive_message that returns when the send failed
after_send_stop_on_failure(c) ==
    IF c.t.ret = "False" THEN [c EXCEPT !.t.pc = "done"]
    ELSE CASE c.t.cont = "return" -> [c EXCEPT !.t.pc = "done"]
           [] c.t.cont = "batch" ->
                 resume_batch([c EXCEPT !.t.pos = 1, !.t.results = EmptyResults])
           [] c.t.cont = "finish" -> process_domain_search_finish(c)

\* what follows the return of send_interactive_message: no caller looks at
\* the value it returns
after_send(c) ==
    CASE c.t.cont = "return" -> [c EXCEPT !.t.pc = "done"]
      [] c.t.cont = "batch" ->
            resume_batch([c EXCEPT !.t.pos = 1, !.t.results = EmptyResults])
      [] c.t.cont = "finish" -> process_domain_search_finish(c)

\* SmartDomainBot.send_interactive_message, lines 309-359: without
\* credentials it returns at once, otherwise it suspends in the POST
send_interactive_message(c, to, message, buttons, cont) ==
    Strict(LAMBDA c1 : IF c1.creds
                       THEN [c1 EXCEPT !.t.pc = "send", !.t.posts = @ + 1]
                       ELSE Strict(after_send, [c1 EXCEPT !.t.ret = "False"]),
           [c EXCEPT !.t.sent = Append(@, [to |-> to, message |-> message,
                                           buttons |-> Take(buttons, 3)]),
                     !.t.cont = cont])

\* lines 492-504 with the register button added whatever the result
process_domain_search_results_always_register(c) ==
    LET results == c.t.results
        results_text == format_domain_results(results, c.t.base)
        buttons == <<"register_domain">>
                   \o (IF Len(results.unavailable) > 0 \/ results.errors # <<>>
                       THEN <<"try_variations">> ELSE <<>>)
                   \o <<"new_search">>
    IN  send_interactive_message([c EXCEPT !.t.results_text = results_text],
                                 c.t.sender, results_text, buttons, "finish")

\* SmartDomainBot.process_domain_search, lines 492-504
process_domain_search_results(c) ==
    LET results == c.t.results
        results_text == format_domain_results(results, c.t.base)
        buttons == (IF results.available # <<>> THEN <<"register_domain">> ELSE <<>>)
                   \o (IF Len(results.unavailable) > 0 \/ results.errors # <<>>
                       THEN <<"try_variations">> ELSE <<>>)
                   \o <<"new_search">>
    IN  send_interactive_message([c EXCEPT !.t.results_text = results_text],
                                 c.t.sender, results_text, buttons, "finish")

\* process_domain_search with the update of lines 483-486 done before the
\* check of the parse result
process_domain_search_update_first(c, sender, domain_input) ==
    LET parsed == parse_domain_input(domain_input)
        c0 == [c EXCEPT !.t.domain_input = domain_input, !.t.parsed = parsed,
                        !.us = update_user_state(c.us, sender,
                                   [step |-> "searching",
                                    current_domain |-> parsed.base])]
    IN  IF parsed.type = "invalid"
        THEN send_interactive_message(c0, sender, [body |-> "invalid_format"], <<>>, "return")
        ELSE LET domains_to_check == Take(parsed.domains_to_check, MaxBatch)
                 c1 == [c0 EXCEPT !.t.base = parsed.base,
                                  !.t.domains = domains_to_check]
             IN  send_interactive_message(c1, sender,
                     [body |-> "searching", base |-> parsed.base,
                      search_count |-> Len(domains_to_check)],
                     <<>>, "batch")

\* SmartDomainBot.process_domain_search, lines 464-490
process_domain_search(c, sender, domain_input) ==
    LET parsed == parse_domain_input(domain_input)
        c0 == [c EXCEPT !.t.domain_input = domain_input, !.t.parsed = parsed]
    IN  IF parsed.type = "invalid"
        THEN send_interactive_message(c0, sender, [body |-> "invalid_format"], <<>>, "return")
        ELSE LET domains_to_check == Take(parsed.domains_to_check, MaxBatch)
                 c1 == [c0 EXCEPT !.us = update_user_state(c.us, sender,
                                      [step |-> "searching",
                                       current_domain |-> parsed.base]),
                                  !.t.base = parsed.base,
                                  !.t.domains = domains_to_check]
             IN  send_interactive_message(c1, sender,
                     [body |-> "searching", base |-> parsed.base,
                      search_count |-> Len(domains_to_check)],
                     <<>>, "batch")

\* send_welcome_message forgetting the domain of the last search
send_welcome_message_clear_domain(c, to) ==
    send_interactive_message(
        [c EXCEPT !.us = update_user_state(c.us, to,
                             [step |-> "greeting", current_domain |-> None])],
        to,
        [body |-> "welcome", extensions |-> Take(DOMAIN_EXTENSIONS, 6)],
        <<"search_domains", "view_extensions", "visit_website">>,
        "return")

\* SmartDomainBot.send_welcome_message
send_welcome_message(c, to) ==
    send_interactive_message(
        [c EXCEPT !.us = update_user_state(c.us, to, [step |-> "greeting"])],
        to,
        [body |-> "welcome", extensions |-> Take(DOMAIN_EXTENSIONS, 6)],
        <<"search_domains", "view_extensions", "visit_website">>,
        "return")

\* send_search_prompt that also forgets current_domain
send_search_prompt_reset(c, to) ==
    send_interactive_message(
        [c EXCEPT !.us = update_user_state(c.us, to,
                             [step |-> "searching", current_domain |-> None])],
        to, [body |-> "search_prompt"], <<>>, "return")

\* SmartDomainBot.send_search_prompt
send_search_prompt(c, to) ==
    send_interactive_message(
        [c EXCEPT !.us = update_user_state(c.us, to, [step |-> "searching"])],
        to, [body |-> "search_prompt"], <<>>, "return")

\* re.sub(r'^(check|search|find|domain)\s+', '', text, flags=re.IGNORECASE)
strip_command(text) ==
    LET words == { <<"c", "h", "e", "c", "k">>, <<"s", "e", "a", "r", "c", "h">>, <<"f", "i", "n", "d">>, <<"d", "o", "m", "a", "i", "n">> }
        hits == {w \in words : startswith(lower(text), w)
                               /\ spaces(drop(text, Len(w))) > 0}
    IN  IF hits = {} THEN text
        ELSE LET w == CHOOSE w \in hits : TRUE
             IN  drop(text, Len(w) + spaces(drop(text, Len(w))))

\* lines 413-417 with the text of the message searched instead of
\* current_domain
search_alternatives_of_text(c, sender, state, text) ==
    LET last_domain == state.current_domain
    IN  IF last_domain # None /\ last_domain # <<>>
        THEN process_domain_search(c, sender, text)
        ELSE [c EXCEPT !.t.pc = "done"]

\* SmartDomainBot.handle_user_message, lines 413-417: "more", "other" or
\* "alternatives" at step results
search_alternatives(c, sender, state, text) ==
    LET last_domain == state.current_domain
    IN  IF last_domain # None /\ last_domain # <<>>
        THEN process_domain_search(c, sender, last_domain)
        ELSE [c EXCEPT !.t.pc = "done"]

\* SmartDomainBot.handle_user_message
handle_user_message(c, sender, message_text) ==
    LET text == strip(message_text)
        c1 == [c EXCEPT !.us = get_user_state(c.us, sender)]
        state == c1.us[sender]
        current_step == state.step
    IN  IF is_greeting(text) THEN send_welcome_message(c1, sender)
        ELSE IF \/ current_step \in {"greeting", "searching"}
                \/ \E w \in { <<"c", "h", "e", "c", "k">>, <<"s", "e", "a", "r", "c", "h">>, <<"f", "i", "n", "d">> } : startswith(text, w)
        THEN LET domain_text == strip(strip_command(text))
             IN  IF domain_text # <<>>
                 THEN process_domain_search(c1, sender, domain_text)
                 ELSE send_search_prompt(c1, sender)
        ELSE IF current_step = "results"
                /\ lower(text) \in { <<"m", "o", "r", "e">>, <<"o", "t", "h", "e", "r">>, <<"a", "l", "t", "e", "r", "n", "a", "t", "i", "v", "e", "s">> }
        THEN search_alternatives(c1, sender, state, text)
        ELSE IF current_step = "results"
                /\ lower(text) \in { <<"n", "e", "w">>, <<"d", "i", "f", "f", "e", "r", "e", "n", "t">>, <<"a", "n", "o", "t", "h", "e", "r">> }
        THEN send_search_prompt(c1, sender)
        ELSE process_domain_search(c1, sender, text)

\* handle_button_click with the register_domain click sending the user back
\* to the greeting step
handle_button_click_register_resets(c, sender, button_id) ==
    CASE button_id = "search_domains" -> send_search_prompt(c, sender)
      [] button_id = "view_extensions" ->
            send_interactive_message(c, sender,
                [body |-> "extensions", extensions |-> DOMAIN_EXTENSIONS], <<>>, "return")
      [] button_id = "visit_website" ->
            send_interactive_message(c, sender, [body |-> "website"],
                <<"new_search">>, "return")
      [] button_id = "register_domain" ->
            send_interactive_message(
                [c EXCEPT !.us = update_user_state(c.us, sender, [step |-> "greeting"])],
                sender, [body |-> "register"],
                <<"new_search", "visit_website">>, "return")
      [] button_id = "new_search" -> send_search_prompt(c, sender)
      [] button_id = "try_variations" ->
            LET c1 == [c EXCEPT !.us = get_user_state(c.us, sender)]
                current_domain == c1.us[sender].current_domain
            IN  IF current_domain # None /\ current_domain # <<>>
                THEN send_interactive_message(c1, sender,
                         [body |-> "variations", base |-> current_domain], <<>>, "return")
                ELSE [c1 EXCEPT !.t.pc = "done"]
      [] OTHER -> [c EXCEPT !.t.pc = "done"]

\* SmartDomainBot.handle_button_click
handle_button_click(c, sender, button_id) ==
    CASE button_id = "search_domains" -> send_search_prompt(c, sender)
      [] button_id = "view_extensions" ->
            send_interactive_message(c, sender,
                [body |-> "extensions", extensions |-> DOMAIN_EXTENSIONS], <<>>, "return")
      [] button_id = "visit_website" ->
            send_interactive_message(c, sender, [body |-> "website"],
                <<"new_search">>, "return")
      [] button_id = "register_domain" ->
            send_interactive_message(c, sender, [body |-> "register"],
                <<"new_search", "visit_website">>, "return")
      [] button_id = "new_search" -> send_search_prompt(c, sender)
      [] button_id = "try_variations" ->
            LET c1 == [c EXCEPT !.us = get_user_state(c.us, sender)]
                current_domain == c1.us[sender].current_domain
            IN  IF current_domain # None /\ current_domain # <<>>
                THEN send_interactive_message(c1, sender,
                         [body |-> "variations", base |-> current_domain], <<>>, "return")
                ELSE [c1 EXCEPT !.t.pc = "done"]
      [] OTHER -> [c EXCEPT !.t.pc = "done"]

(***************************************************************************)
(* Inputs.                                                                 *)
(***************************************************************************)
\* message texts the users send at any step
Texts ==
    { <<"h", "i">>, <<"a", "b", "c">>, <<"n", "e", "w">>, <<"G", "o", "o", "d", " ", "M", "o", "r", "n", "i", "n", "g">>, <<>>,
      <<"s", "h", "o", "p">>, <<" ", "S", "h", "o", "p", ".", "K", "E", " ">>, <<"s", "h", "o", "p", ".", "c", "o">>, <<"c", "h", "e", "c", "k", " ", "s", "h", "o", "p">>, <<"s", "h", "o", "p", ".", "c", "o", "m">>, <<"s", "h", "$", "p">> }

\* the follow-up words, which the users send in answer to results only
FollowUps ==
    { <<"d", "i", "f", "f", "e", "r", "e", "n", "t">>, <<"a", "n", "o", "t", "h", "e", "r">>, <<"m", "o", "r", "e">>, <<"O", "t", "h", "e", "r">>, <<"a", "l", "t", "e", "r", "n", "a", "t", "i", "v", "e", "s">> }

\* button ids of button_reply messages; "" when the reply has no id
Buttons ==
    {"search_domains", "view_extensions", "visit_website", "register_domain",
     "new_search", "try_variations", ""}

\* domains of the direct calls of check_domains_batch
BatchDomains == { <<"s", "h", "o", "p", ".", "k", "e">>, <<"s", "h", "o", "p", ".", "c", "o", ".", "k", "e">> }

RECURSIVE SeqsUpTo(_, _)
SeqsUpTo(S, n) ==
    IF n = 0 THEN {<<>>}
    ELSE LET shorter == SeqsUpTo(S, n - 1)
         IN  shorter \cup {Append(s, x) : s \in shorter, x \in S}

(***************************************************************************)
(* Actions.                                                                *)
(***************************************************************************)
\* what get_user_state would return for the user
View(us, u) == IF u \in DOMAIN us THEN us[u] ELSE NewUserState

Config(h) ==
    [us |-> user_states, cache |-> domain_cache, creds |-> credentials, t |-> task[h]]

\* The records that the handlers store in message_statuses (lines 366-377,
\* 619-632 and 640-650) are left out of the conversation: no handler reads
\* message_statuses.  store_message_status is specified on its own below.
Commit(h, c) ==
    \E d \in {c} :
        /\ user_states' = d.us
        /\ domain_cache' = d.cache
        /\ task' = [task EXCEPT ![h] = d.t]
        /\ UNCHANGED <<credentials, message_statuses>>

InFlight(u) == Cardinality({h \in Slots : task[h].pc # "idle" /\ task[h].sender = u})

CanAccept(u) == Len(View(user_states, u).search_history) + InFlight(u) < MaxHistory

\* the dicts as the handler finds them when it starts
Entry(u) ==
    [known |-> u \in DOMAIN user_states, state |-> View(user_states, u),
     cache |-> domain_cache]

Start(h, kind, u, input) ==
    [Config(h) EXCEPT !.t = [IdleTask EXCEPT !.kind = kind, !.sender = u,
                                              !.input = input,
                                              !.entry = Entry(u)]]

\* handle_webhook, lines 661-664: a text message of user u arrives
ReceiveText(h, u, text) ==
    /\ task[h].pc = "idle"
    /\ CanAccept(u)
    /\ text \in FollowUps => View(user_states, u).step = "results"
    /\ Commit(h, handle_user_message(Start(h, "text", u, text), u, strip(text)))

\* handle_webhook, lines 653-658: a button reply of user u arrives
ReceiveButton(h, u, button_id) ==
    /\ task[h].pc = "idle"
    /\ CanAccept(u)
    /\ Commit(h, handle_button_click(
                     [Start(h, "button", u, <<>>) EXCEPT !.t.button_id = button_id],
                     u, button_id))

\* the POST of send_interactive_message ends (lines 360-386)
SendResponse(h, outcome) ==
    /\ task[h].pc = "send"
    /\ Commit(h, after_send([Config(h) EXCEPT
                                 !.t.ret = IF outcome = "ok" THEN "True" ELSE "False"]))

\* the GET of check_domains_batch ends (lines 237-260)
LookupResponse(h, outcome) ==
    /\ task[h].pc = "lookup"
    /\ Commit(h, resume_batch(lookup_response(
                     [Config(h) EXCEPT !.t.outcomes = Append(@, outcome)], outcome)))

\* the handler has returned: its slot is free again
Return(h) ==
    /\ task[h].pc = "done"
    /\ task' = [task EXCEPT ![h] = IdleTask]
    /\ UNCHANGED <<user_states, domain_cache, credentials, message_statuses>>

\* check_domains_batch called on its own with any sequence of domains
DirectCall(h, domains) ==
    /\ task[h].pc = "idle"
    /\ Commit(h, resume_batch([Start(h, "direct", "", domains) EXCEPT !.t.domains = domains]))

Init ==
    /\ user_states = <<>>
    /\ domain_cache = <<>>
    /\ credentials \in BOOLEAN
    /\ task = [h \in Slots |-> IdleTask]
    /\ message_statuses = <<>>

Step(h, U, T) ==
    \/ \E u \in U, text \in T : ReceiveText(h, u, text)
    \/ \E u \in U, b \in Buttons : ReceiveButton(h, u, b)
    \/ \E o \in SendOutcomes : SendResponse(h, o)
    \/ \E o \in LookupOutcomes : LookupResponse(h, o)
    \/ Return(h)

\* one webhook delivery at a time
Next == Step("h1", {"u1"}, Texts \cup FollowUps)

Spec == Init /\ [][Next]_vars

\* one delivery at a time, every POST and every GET ending: both carry a
\* total timeout (lines 235 and 359)
SpecLive ==
    /\ Spec
    /\ WF_vars(\E o \in SendOutcomes : SendResponse("h1", o))
    /\ WF_vars(\E o \in LookupOutcomes : LookupResponse("h1", o))

\* deliveries handled concurrently: FastAPI starts one handle_webhook
\* coroutine per request, and the coroutines interleave at their awaits.
\* The texts are a greeting, two full domains, a short code, a bare name, an
\* invalid text and a follow-up word
ConcTexts ==
    { <<"h", "i">>, <<"s", "h", "o", "p", ".", "k", "e">>, <<"m", "a", "r", "t", ".", "c", "o">>,
      <<"s", "h", "o", "p">>, <<"m", "o", "r", "e">>, <<"s", "h", "$", "p">> }

ConcButtons == {"new_search", "register_domain", "try_variations"}

\* one outcome for each branch of lines 237-260 and of lines 360-386
ConcLookupOutcomes == {"available", "unavailable", "timeout"}

ConcSendOutcomes == {"ok", "failed"}

StepConc(h, U, T, B) ==
    \/ \E u \in U, text \in T : ReceiveText(h, u, text)
    \/ \E u \in U, b \in B : ReceiveButton(h, u, b)
    \/ \E o \in ConcSendOutcomes : SendResponse(h, o)
    \/ \E o \in ConcLookupOutcomes : LookupResponse(h, o)
    \/ Return(h)

\* two deliveries of one user in progress at once
NextConc == \E h \in Slots : StepConc(h, {"u1"}, ConcTexts, ConcButtons)

SpecConc == Init /\ [][NextConc]_vars

\* deliveries of two users in progress at once, one slot for each user
UsersTexts == { <<"h", "i">>, <<"s", "h", "o", "p", ".", "k", "e">> }

UsersButtons == {"new_search", "try_variations"}

NextUsers ==
    \/ StepConc("h1", {"u1"}, UsersTexts, UsersButtons)
    \/ StepConc("h2", {"u2"}, UsersTexts, UsersButtons)

SpecUsers == Init /\ [][NextUsers]_vars

\* check_domains_batch on its own: any prior cache, any input sequence
CacheRecords(d) == {[domain |-> d, available |-> a] : a \in BOOLEAN}

Caches ==
    UNION {{f \in [D -> UNION {CacheRecords(d) : d \in D}] : \A d \in D : f[d].domain = d}
           : D \in SUBSET BatchDomains}

InitBatch ==
    /\ user_states = <<>>
    /\ domain_cache \in Caches
    /\ credentials \in BOOLEAN
    /\ task = [h \in Slots |-> IdleTask]
    /\ message_statuses = <<>>

NextBatch ==
    \/ \E domains \in SeqsUpTo(BatchDomains, MaxInput) : DirectCall("h1", domains)
    \/ \E o \in LookupOutcomes : LookupResponse("h1", o)
    \/ Return("h1")

SpecBatch == InitBatch /\ [][NextBatch]_vars

\* parse_domain_input on its own: a base name, alone or followed by a dot and
\* a full or a partial extension
NameChars == {"a", "0", "-", "Z"}

Names == SeqsUpTo(NameChars, MaxName) \ {<<>>}

\* endings that are neither a supported extension nor a short code
OtherExtensions ==
    { <<"c", "o", "m">>,
      <<"k">>,
      <<"c", "o", "o">>,
      <<"c", "o", ".", "u", "k">>,
      <<"k", "e", ".", "c", "o">>,
      <<>>,
      <<"c", "o", ".">>,
      <<"k", " ", "e">> }

ParseInputs ==
    Names \cup {B \o <<".">> \o E :
                    B \in Names,
                    E \in FullExtensions \cup PartialExtensions \cup OtherExtensions}

ParseCall(h, text) ==
    /\ task[h].pc = "idle"
    /\ task' = [task EXCEPT ![h] =
                    [IdleTask EXCEPT !.kind = "parse", !.pc = "done",
                                     !.domain_input = text,
                                     !.parsed = parse_domain_input(text)]]
    /\ UNCHANGED <<user_states, domain_cache, credentials, message_statuses>>

NextParse ==
    \/ \E text \in ParseInputs : ParseCall("h1", text)
    \/ Return("h1")

SpecParse == Init /\ [][NextParse]_vars

\* format_domain_results on its own: any numbers of available, unavailable
\* and failed domains
FanOut(base) == parse_domain_input(base).domains_to_check

\* a bucket of n entries, as check_domains_batch fills it
Bucket(base, n, available) ==
    [i \in 1..n |-> [domain |-> FanOut(base)[i], available |-> available]]

ErrorBucket(base, n) ==
    [i \in 1..n |-> [domain |-> FanOut(base)[i], error |-> "Request timeout"]]

BatchResults ==
    {[available |-> Bucket(<<"s", "h", "o", "p">>, a, TRUE),
      unavailable |-> Bucket(<<"m", "a", "r", "t">>, u, FALSE),
      errors |-> ErrorBucket(<<"s", "i", "t", "e">>, e)] :
        a \in 0..MaxAvailable, u \in 0..MaxUnavailable, e \in 0..MaxErrors}

FormatCall(h, results, base_domain) ==
    /\ task[h].pc = "idle"
    /\ task' = [task EXCEPT ![h] =
                    [IdleTask EXCEPT !.kind = "format", !.pc = "done",
                                     !.results = results, !.base = base_domain,
                                     !.results_text =
                                         format_domain_results(results, base_domain)]]
    /\ UNCHANGED <<user_states, domain_cache, credentials, message_statuses>>

NextFormat ==
    \/ \E results \in BatchResults : FormatCall("h1", results, <<"s", "h", "o", "p">>)
    \/ Return("h1")

SpecFormat == Init /\ [][NextFormat]_vars

(***************************************************************************)
(* The message-status log.                                                 *)
(***************************************************************************)
MAX_STATUS_RECORDS == 1000

\* line 103: sorted_keys[:100]
OldestRemoved == 100

\* the position of the first key of sorted(..., key = last_updated): sorted
\* is stable, so among equal last_updated the first inserted comes first
FirstSorted(ms) ==
    CHOOSE i \in 1..Len(ms) :
        \A j \in 1..Len(ms) :
            \/ ms[i].last_updated < ms[j].last_updated
            \/ ms[i].last_updated = ms[j].last_updated /\ i <= j

DeleteAt(ms, i) == SubSeq(ms, 1, i - 1) \o SubSeq(ms, i + 1, Len(ms))

\* lines 101-104: the first n keys of the sorted list are deleted
RECURSIVE delete_sorted_keys(_, _)
delete_sorted_keys(ms, n) ==
    IF n = 0 \/ ms = <<>> THEN ms
    ELSE delete_sorted_keys(Strict(LAMBDA i : DeleteAt(ms, i), FirstSorted(ms)), n - 1)

HasKey(ms, message_id) == \E i \in 1..Len(ms) : ms[i].message_id = message_id

\* lines 107-123: the record is created when the key is new, then the status
\* is appended to its history
store_status(ms, message_id, status, recipient, timestamp) ==
    LET ms1 == IF HasKey(ms, message_id) THEN ms
               ELSE Append(ms, [message_id |-> message_id, recipient |-> recipient,
                                status_history |-> <<>>, created_at |-> timestamp,
                                last_updated |-> timestamp, current_status |-> ""])
    IN  [i \in 1..Len(ms1) |->
            IF ms1[i].message_id = message_id
            THEN [ms1[i] EXCEPT !.status_history =
                                    Append(@, [status |-> status, timestamp |-> timestamp]),
                                !.current_status = status,
                                !.last_updated = timestamp]
            ELSE ms1[i]]

\* store_message_status with the first inserted records removed, whatever
\* their last_updated
store_message_status_first_inserted(ms, message_id, status, recipient, timestamp) ==
    store_status(IF Len(ms) >= MAX_STATUS_RECORDS
                 THEN SubSeq(ms, OldestRemoved + 1, Len(ms)) ELSE ms,
                 message_id, status, recipient, timestamp)

\* store_message_status
store_message_status(ms, message_id, status, recipient, timestamp) ==
    store_status(IF Len(ms) >= MAX_STATUS_RECORDS
                 THEN delete_sorted_keys(ms, OldestRemoved) ELSE ms,
                 message_id, status, recipient, timestamp)

\* the longest status history of a record in the model
MaxStatusHistory == 2

\* the logs the calls start from: n records stored one after the other, and
\* the same with the first records updated after the last one was stored
StartSizes == {0, MAX_STATUS_RECORDS - 1, MAX_STATUS_RECORDS}

Refreshed == 50

StartLog(n, refreshed) ==
    [i \in 1..n |->
        LET t == IF i <= refreshed THEN n + i ELSE i
        IN  [message_id |-> i, recipient |-> "u1",
             status_history |->
                 IF i <= refreshed
                 THEN <<[status |-> "sent", timestamp |-> i],
                        [status |-> "read", timestamp |-> t]>>
                 ELSE <<[status |-> "sent", timestamp |-> i]>>,
             created_at |-> i, last_updated |-> t,
             current_status |-> IF i <= refreshed THEN "read" ELSE "sent"]]

\* message ids, statuses and timestamps of the calls
StatusIds == {1, MAX_STATUS_RECORDS, MAX_STATUS_RECORDS + 1}

Statuses == {"delivered"}

Timestamps == {0, 2 * MAX_STATUS_RECORDS + 1}

HistoryOf(ms, message_id) ==
    IF HasKey(ms, message_id)
    THEN Len(ms[CHOOSE i \in 1..Len(ms) : ms[i].message_id = message_id].status_history)
    ELSE 0

\* one call of store_message_status, from any of its three call sites
StoreStatus(h, message_id, status, timestamp) ==
    /\ task[h].pc = "idle"
    /\ HistoryOf(message_statuses, message_id) < MaxStatusHistory
    /\ \E ms \in {store_message_status(message_statuses, message_id, status, "u1",
                                         timestamp)} :
           message_statuses' = ms
    /\ task' = [task EXCEPT ![h] = [IdleTask EXCEPT !.kind = "status", !.pc = "done",
                                                     !.message_id = message_id]]
    /\ UNCHANGED <<user_states, domain_cache, credentials>>

InitStatus ==
    /\ user_states = <<>>
    /\ domain_cache = <<>>
    /\ credentials = TRUE
    /\ task = [h \in Slots |-> IdleTask]
    /\ message_statuses \in {StartLog(n, r) : n \in StartSizes, r \in {0, Refreshed}}

NextStatus ==
    \/ \E id \in StatusIds, status \in Statuses, timestamp \in Timestamps :
           StoreStatus("h1", id, status, timestamp)
    \/ Return("h1")

SpecStatus == InitStatus /\ [][NextStatus]_vars

(***************************************************************************)
(* Properties of check_domains_batch.                                      *)
(***************************************************************************)
\* the domains of the entries of one bucket
BucketDomains(bucket) == {bucket[i].domain : i \in 1..Len(bucket)}

\* check_domains_batch has returned to its caller
BatchReturned(t) ==
    \/ t.kind = "direct" /\ t.pc = "done"
    \/ t.kind \in {"text", "button"} /\ t.domains # <<>> /\ t.pos > Len(t.domains)

\* the buckets are mutually exclusive and together hold the input domains
Partition(t) ==
    /\ BucketDomains(t.results.available) \cap BucketDomains(t.results.unavailable) = {}
    /\ BucketDomains(t.results.available) \cap BucketDomains(t.results.errors) = {}
    /\ BucketDomains(t.results.unavailable) \cap BucketDomains(t.results.errors) = {}
    /\ BucketDomains(t.results.available) \cup BucketDomains(t.results.unavailable)
           \cup BucketDomains(t.results.errors) = Range(t.domains)

NoRepeats(s) == \A i, j \in 1..Len(s) : s[i] = s[j] => i = j

\* C1 as claimed: for ANY input sequence, prior cache and lookup outcomes the
\* returned buckets are mutually exclusive and hold exactly the input domains.
\* Refuted by an input that repeats a domain.
C1_AnyInputPartition ==
    \A h \in Slots : BatchReturned(task[h]) => Partition(task[h])

\* C1 amended: for any input sequence in which no domain occurs twice, any
\* prior cache and any lookup outcomes, the returned buckets are mutually
\* exclusive and the domains in them are exactly the input domains.
C1_DistinctInputPartition ==
    \A h \in Slots :
        BatchReturned(task[h]) /\ NoRepeats(task[h].domains) => Partition(task[h])

\* a call with two different domains has returned, one from the cache in the
\* available bucket, the other looked up and in the errors bucket
C1_Witness ==
    \E h \in Slots :
        /\ BatchReturned(task[h])
        /\ Len(task[h].domains) = 2 /\ NoRepeats(task[h].domains)
        /\ task[h].entry.cache # <<>>
        /\ Len(task[h].results.available) = 1
        /\ Len(task[h].results.errors) = 1

EntryCount(t) ==
    Len(t.results.available) + Len(t.results.unavailable) + Len(t.results.errors)

\* C2: a failed lookup never aborts the batch: the call does not end by an
\* exception, every domain up to the current one has one bucket entry, and the
\* call returns only when every input domain has been processed, with as many
\* bucket entries as input domains.
C2_FailureDoesNotAbort ==
    \A h \in Slots :
        task[h].kind = "direct" =>
            /\ task[h].pc \in {"lookup", "done"}
            /\ EntryCount(task[h]) = task[h].pos - 1
            /\ task[h].pc = "done" =>
                   /\ task[h].pos = Len(task[h].domains) + 1
                   /\ EntryCount(task[h]) = Len(task[h].domains)

\* the lookup of the first of two domains failed and the second was looked up
\* all the same, and found available
C2_Witness ==
    \E h \in Slots :
        /\ task[h].kind = "direct" /\ task[h].pc = "done"
        /\ Len(task[h].domains) = 2
        /\ Len(task[h].requests) = 2
        /\ Len(task[h].results.errors) = 1
        /\ task[h].results.errors[1].domain = task[h].domains[1]
        /\ Len(task[h].results.available) = 1
        /\ task[h].results.available[1].domain = task[h].domains[2]

\* C3: a cache hit means no external call.  No request is issued for a domain
\* that was in domain_cache when the handler started, the cached record of
\* every such domain already passed is in the bucket its available flag
\* names (and not in errors), and a request is pending only for a domain that
\* is not in the cache.
C3_CacheHitNoRequest ==
    \A h \in Slots :
        task[h].kind \in {"text", "button"} =>
            LET t == task[h]
                cached == t.entry.cache
            IN  /\ \A d \in Range(t.requests) : d \notin DOMAIN cached
                /\ \A i \in 1..(t.pos - 1) :
                       t.domains[i] \in DOMAIN cached =>
                           LET rec == cached[t.domains[i]]
                           IN  /\ rec.available => rec \in Range(t.results.available)
                               /\ ~rec.available => rec \in Range(t.results.unavailable)
                               /\ t.domains[i] \notin BucketDomains(t.results.errors)
                /\ t.pc = "lookup" => t.domains[t.pos] \notin DOMAIN domain_cache

\* a second search whose single domain the first search found available: the
\* batch has returned without any request, with the record of the first search
C3_Witness ==
    \E h \in Slots :
        LET t == task[h]
        IN  /\ t.kind = "text" /\ BatchReturned(t)
            /\ Len(t.domains) = 1
            /\ t.requests = <<>>
            /\ "last_results" \in DOMAIN t.entry.state
            /\ Len(t.results.available) = 1
            /\ t.results.available[1] \in Range(t.entry.state.last_results.available)
            /\ t.results.available[1].domain = t.domains[1]

\* bucket `new` extends bucket `old`, by entry first
NextEntry(old, new, entry) ==
    /\ Len(new) > Len(old)
    /\ SubSeq(new, 1, Len(old)) = old
    /\ new[Len(old) + 1] = entry

\* a step that records a lookup error leaves domain_cache unchanged; a step
\* that changes domain_cache only adds the record of the domain whose lookup
\* was pending, and that record is the next entry of the available or the
\* unavailable bucket
C4_Step ==
    \A h \in Slots :
        /\ Len(task'[h].results.errors) > Len(task[h].results.errors)
               => domain_cache' = domain_cache
        /\ domain_cache' # domain_cache /\ task'[h] # task[h] =>
               /\ task[h].pc = "lookup"
               /\ LET d == task[h].domains[task[h].pos]
                      new == task'[h].results
                  IN  /\ d \notin DOMAIN domain_cache
                      /\ DOMAIN domain_cache' = DOMAIN domain_cache \cup {d}
                      /\ \A x \in DOMAIN domain_cache : domain_cache'[x] = domain_cache[x]
                      /\ new.errors = task[h].results.errors
                      /\ \/ NextEntry(task[h].results.available, new.available,
                                      domain_cache'[d])
                         \/ NextEntry(task[h].results.unavailable, new.unavailable,
                                      domain_cache'[d])

\* a domain that the batch has passed, or is at, and that is not in the cache
\* has had its request
C4_State ==
    \A h \in Slots :
        task[h].kind \in {"text", "button"} =>
            /\ \A i \in 1..(task[h].pos - 1) :
                   task[h].domains[i] \notin DOMAIN domain_cache
                       => task[h].domains[i] \in Range(task[h].requests)
            /\ task[h].pc = "lookup"
                   => task[h].domains[task[h].pos] \in Range(task[h].requests)

\* C4: only successful lookups are cached: every error outcome leaves
\* domain_cache unchanged, a domain enters the cache only with the record of
\* its own successful lookup, and a domain that is not cached when a check
\* reaches it is requested (again).
C4_OnlySuccessCached == [](C4_State) /\ [][C4_Step]_vars

\* an earlier search of the user ended with an error for a domain, the domain
\* is not cached, and the request for it is pending again
C4_Witness ==
    \E h \in Slots :
        LET t == task[h]
        IN  /\ t.kind = "text" /\ t.pc = "lookup"
            /\ "last_results" \in DOMAIN t.entry.state
            /\ t.domains[t.pos] \in BucketDomains(t.entry.state.last_results.errors)
            /\ t.domains[t.pos] \notin DOMAIN domain_cache
            /\ t.domains[t.pos] \in Range(t.requests)

(***************************************************************************)
(* Properties of the conversation.  Each handler keeps in t.entry what it  *)
(* found when it started, in t.sent the messages it has handed to          *)
(* send_interactive_message and in t.requests the GETs it has issued.      *)
(***************************************************************************)
\* slot h runs (or has just finished) the handler of a text message
TextHandler(h) == task[h].kind = "text" /\ task[h].pc # "idle"

\* slot h runs (or has just finished) the handler of a button reply
ButtonHandler(h) == task[h].kind = "button" /\ task[h].pc # "idle"

\* the state dict of the handler's user as it is now
StateOf(h) == View(user_states, task[h].sender)

\* the text is a valid bare name for the parser
BareName(text) == parse_domain_input(text).type = "base_domain"

\* the first message: a greeting from a user without a state entry
FreshGreeting(h) ==
    TextHandler(h) /\ ~task[h].entry.known /\ is_greeting(task[h].input)

\* the second message: a bare name from a user whose entry is what the
\* greeting left
NameAfterGreeting(h) ==
    /\ TextHandler(h)
    /\ task[h].entry.known /\ task[h].entry.state = NewUserState
    /\ BareName(task[h].input)

\* the search of the name of the message: SEARCHING with the history still
\* empty while the handler is suspended, RESULTS with the history [B] once it
\* has returned
SearchOfName(h) ==
    LET B == parse_domain_input(task[h].input).base
        state == StateOf(h)
    IN  /\ task[h].sender \in DOMAIN user_states
        /\ state.current_domain = B
        /\ task[h].pc \in {"send", "lookup"} =>
               state.step = "searching" /\ state.search_history = <<>>
        /\ task[h].pc = "done" =>
               state.step = "results" /\ state.search_history = <<B>>

\* C5 as claimed: for a fresh user a greeting leaves the step at GREETING, and
\* ANY valid bare-name message B sent next takes the user through SEARCHING to
\* RESULTS with search_history = [B].  Refuted by a bare name that is itself
\* a greeting, such as "abc".
C5_AnyBareNameSearched ==
    \A h \in Slots :
        /\ FreshGreeting(h) =>
               task[h].sender \in DOMAIN user_states /\ StateOf(h) = NewUserState
        /\ NameAfterGreeting(h) => SearchOfName(h)

C5_State ==
    \A h \in Slots :
        /\ FreshGreeting(h) =>
               task[h].sender \in DOMAIN user_states /\ StateOf(h) = NewUserState
        /\ NameAfterGreeting(h) /\ ~is_greeting(task[h].input) => SearchOfName(h)

\* the handler of the bare name returns from a suspension at which the
\* step was SEARCHING
C5_Through ==
    \A h \in Slots :
        (NameAfterGreeting(h) /\ ~is_greeting(task[h].input) /\ task[h].pc = "done")'
            /\ task[h].pc # "done"
        => task[h].pc \in {"send", "lookup"} /\ StateOf(h).step = "searching"

\* C5 amended: for a fresh user, handled one message after the other, a
\* greeting leaves the step at GREETING (the default entry, nothing searched),
\* and a valid bare-name message B that is not itself a greeting, sent next,
\* leaves the user at RESULTS having passed through SEARCHING, with
\* search_history = [B] and current_domain = B.
C5_GreetingThenName == [](C5_State) /\ [][C5_Through]_vars

\* "shop" sent after the greeting of a fresh user has been searched
C5_Witness ==
    \E h \in Slots :
        /\ NameAfterGreeting(h) /\ task[h].pc = "done"
        /\ task[h].input = <<"s", "h", "o", "p">>
        /\ StateOf(h).step = "results"
        /\ StateOf(h).search_history = << <<"s", "h", "o", "p">> >>

\* the text is a greeting: an exact member of the greeting-word set, or of
\* trimmed length 3 or less, or it contains a time-of-day greeting phrase
GreetingPhrase(text) ==
    LET trimmed == lower(strip(text))
    IN  \/ trimmed \in greetings
        \/ Len(trimmed) <= 3
        \/ contains(trimmed, <<"g", "o", "o", "d", " ", "m", "o", "r", "n", "i", "n", "g">>)
        \/ contains(trimmed, <<"g", "o", "o", "d", " ", "a", "f", "t", "e", "r", "n", "o", "o", "n">>)
        \/ contains(trimmed, <<"g", "o", "o", "d", " ", "e", "v", "e", "n", "i", "n", "g">>)

\* the handler has sent the one message of the given kind, to its user
SentOnly(h, body) ==
    /\ Len(task[h].sent) = 1
    /\ task[h].sent[1].to = task[h].sender
    /\ task[h].sent[1].message.body = body

\* the handler has started no domain search: nothing was handed to the
\* parser, no domain was queued and no GET was issued
NoSearch(h) ==
    /\ task[h].domain_input = None
    /\ task[h].domains = <<>>
    /\ task[h].requests = <<>>

\* C6: from any step a greeting text (greeting word, trimmed length <= 3, or
\* time-of-day phrase) sends the welcome message and sets the step to
\* GREETING, the other fields staying as they were; it never starts a domain
\* search, even when the text is also a valid bare name.
C6_GreetingNeverSearches ==
    \A h \in Slots :
        TextHandler(h) /\ GreetingPhrase(task[h].input) =>
            /\ SentOnly(h, "welcome")
            /\ task[h].sent[1].buttons =
                   <<"search_domains", "view_extensions", "visit_website">>
            /\ NoSearch(h)
            /\ task[h].sender \in DOMAIN user_states
            /\ StateOf(h) = [task[h].entry.state EXCEPT !.step = "greeting"]

\* "abc", a valid bare name of length 3, sent at step RESULTS, was answered
\* with the welcome message
C6_Witness ==
    \E h \in Slots :
        /\ TextHandler(h) /\ task[h].pc = "done"
        /\ task[h].input = <<"a", "b", "c">> /\ BareName(task[h].input)
        /\ task[h].entry.state.step = "results"
        /\ StateOf(h).step = "greeting"
        /\ SentOnly(h, "welcome")

\* C7 as claimed: at step RESULTS each of the texts "new", "different" and
\* "another" has the search prompt sent and the step set to SEARCHING.
\* Refuted by "new", which is_greeting takes for a greeting.
C7_NewSearchWords ==
    \A h \in Slots :
        /\ TextHandler(h)
        /\ task[h].entry.state.step = "results"
        /\ lower(strip(task[h].input)) \in {<<"n", "e", "w">>, <<"d", "i", "f", "f", "e", "r", "e", "n", "t">>, <<"a", "n", "o", "t", "h", "e", "r">>}
        => SentOnly(h, "search_prompt") /\ StateOf(h).step = "searching"

\* the words of C7 that are handled as claimed
C7_LongWordsPrompt ==
    \A h \in Slots :
        /\ TextHandler(h)
        /\ task[h].entry.state.step = "results"
        /\ lower(strip(task[h].input)) \in {<<"d", "i", "f", "f", "e", "r", "e", "n", "t">>, <<"a", "n", "o", "t", "h", "e", "r">>}
        => SentOnly(h, "search_prompt") /\ StateOf(h).step = "searching"

\* C8: at step RESULTS each of the texts "more", "other" and "alternatives"
\* re-runs the search pipeline for the stored current_domain, not for the
\* text of the message: the pipeline is handed current_domain, the domains it
\* checks are those of current_domain, the step is SEARCHING while the
\* handler is suspended, and once it has returned the user is at RESULTS with
\* current_domain appended to search_history.
C8_MoreSearchesCurrentDomain ==
    \A h \in Slots :
        /\ TextHandler(h)
        /\ task[h].entry.state.step = "results"
        /\ lower(strip(task[h].input)) \in {<<"m", "o", "r", "e">>, <<"o", "t", "h", "e", "r">>, <<"a", "l", "t", "e", "r", "n", "a", "t", "i", "v", "e", "s">>}
        => LET last_domain == task[h].entry.state.current_domain
               parsed == parse_domain_input(last_domain)
           IN  /\ task[h].domain_input = last_domain
               /\ task[h].base = last_domain
               /\ task[h].domains = Take(parsed.domains_to_check, MaxBatch)
               /\ Range(task[h].requests) \subseteq Range(parsed.domains_to_check)
               /\ StateOf(h).current_domain = last_domain
               /\ task[h].pc \in {"send", "lookup"} => StateOf(h).step = "searching"
               /\ task[h].pc = "done" =>
                      /\ StateOf(h).step = "results"
                      /\ StateOf(h).last_results = task[h].results
                      /\ StateOf(h).search_history =
                             Append(task[h].entry.state.search_history, last_domain)

\* "more" sent after the results of "shop" has searched "shop" again
C8_Witness ==
    \E h \in Slots :
        /\ TextHandler(h) /\ task[h].pc = "done"
        /\ task[h].input = <<"m", "o", "r", "e">>
        /\ task[h].entry.state.step = "results"
        /\ task[h].entry.state.current_domain = <<"s", "h", "o", "p">>
        /\ task[h].base = <<"s", "h", "o", "p">>
        /\ StateOf(h).step = "results"
        /\ StateOf(h).search_history = << <<"s", "h", "o", "p">>, <<"s", "h", "o", "p">> >>

\* C9: from any step, and for a user without a state entry too, a click on
\* search_domains or new_search sends the search prompt and sets the step to
\* SEARCHING; current_domain, search_history and last_results stay as they
\* were, and no search is started.
C9_SearchButtonsPrompt ==
    \A h \in Slots :
        ButtonHandler(h) /\ task[h].button_id \in {"search_domains", "new_search"} =>
            /\ SentOnly(h, "search_prompt")
            /\ NoSearch(h)
            /\ task[h].sender \in DOMAIN user_states
            /\ StateOf(h) = [task[h].entry.state EXCEPT !.step = "searching"]

\* new_search clicked at step RESULTS: the step is SEARCHING and the history
\* and the results of the search are still there
C9_Witness ==
    \E h \in Slots :
        /\ ButtonHandler(h) /\ task[h].pc = "done"
        /\ task[h].button_id = "new_search"
        /\ task[h].entry.state.step = "results"
        /\ StateOf(h).step = "searching"
        /\ StateOf(h).search_history = << <<"s", "h", "o", "p">> >>
        /\ StateOf(h).current_domain = <<"s", "h", "o", "p">>
        /\ "last_results" \in DOMAIN StateOf(h)

\* C10: when the text handed to the search pipeline parses as invalid, the
\* format-guidance message is the one message sent, no lookup is issued,
\* domain_cache is as the handler found it, and the user's state dict (step,
\* current_domain, search_history, last_results) is what get_user_state gave
\* when the handler started.
C10_InvalidLeavesState ==
    \A h \in Slots :
        /\ task[h].pc # "idle"
        /\ task[h].domain_input # None
        /\ parse_domain_input(task[h].domain_input).type = "invalid"
        => /\ SentOnly(h, "invalid_format")
           /\ task[h].domains = <<>>
           /\ task[h].requests = <<>>
           /\ domain_cache = task[h].entry.cache
           /\ StateOf(h) = task[h].entry.state

\* "sh$p" sent at step RESULTS with a filled cache: guidance sent, state kept
C10_Witness ==
    \E h \in Slots :
        /\ TextHandler(h) /\ task[h].pc = "done"
        /\ task[h].domain_input = <<"s", "h", "$", "p">>
        /\ task[h].entry.state.step = "results"
        /\ task[h].entry.cache # <<>>
        /\ StateOf(h).step = "results"
        /\ SentOnly(h, "invalid_format")

\* C11 as claimed: every call of handle_user_message and of
\* handle_button_click has handed at least one message to
\* send_interactive_message when it returns.  Refuted by a button reply whose
\* id is none of the six known ones, and by try_variations from a user
\* without current_domain: both return without sending anything.
C11_EveryTurnAnswered ==
    \A h \in Slots :
        (TextHandler(h) \/ ButtonHandler(h)) /\ task[h].pc = "done" =>
            Len(task[h].sent) >= 1

\* the part of C11 that holds: every text message is answered, and so is
\* every click on a known button other than try_variations without a
\* current_domain
C11_AnsweredTurns ==
    \A h \in Slots :
        /\ task[h].pc \in {"send", "lookup", "done"}
        /\ \/ TextHandler(h)
           \/ /\ ButtonHandler(h)
              /\ task[h].button_id \in {"search_domains", "view_extensions",
                                    "visit_website", "register_domain", "new_search"}
           \/ /\ ButtonHandler(h)
              /\ task[h].button_id = "try_variations"
              /\ task[h].entry.state.current_domain # None
        => Len(task[h].sent) >= 1

\* the search pipeline of slot h has set the step to SEARCHING for a valid
\* query of user u and has not returned yet
Searching(h, u) ==
    /\ task[h].sender = u
    /\ task[h].pc \in {"send", "lookup"}
    /\ task[h].domains # <<>>

\* user u is at RESULTS with the results of a search stored
AtResults(u) ==
    /\ u \in DOMAIN user_states
    /\ user_states[u].step = "results"
    /\ "last_results" \in DOMAIN user_states[u]

Replied(h) ==
    /\ TextHandler(h)
    /\ task[h].domains # <<>>
    /\ task[h].pos > Len(task[h].domains)

ResultsReply(h) == task[h].sent[2]

AllErrored(results) == results.available = <<>> /\ results.unavailable = <<>>

\* C13 as claimed: when every domain of a search errored, the reply is the
\* couldn't-check message and it carries no action buttons.  Refuted: the
\* reply carries the try-variations and the new-search button.
C13_AllErrorsNoButtons ==
    \A h \in Slots :
        Replied(h) /\ AllErrored(task[h].results) =>
            /\ Len(task[h].sent) = 2
            /\ ResultsReply(h).message.body = "couldnt_check"
            /\ ResultsReply(h).buttons = <<>>

\* what the reply holds instead: the couldn't-check message naming the
\* searched base, with the try-variations and the new-search button
C13_AllErrorsApology ==
    \A h \in Slots :
        Replied(h) /\ AllErrored(task[h].results) =>
            /\ Len(task[h].sent) = 2
            /\ ResultsReply(h).to = task[h].sender
            /\ ResultsReply(h).message = [body |-> "couldnt_check", base |-> task[h].base]
            /\ ResultsReply(h).buttons = <<"try_variations", "new_search">>

\* the two lookups of a search both failed and the reply has been sent
C13_AllLookupsFailed ==
    \E h \in Slots :
        /\ Replied(h) /\ task[h].pc = "done"
        /\ Len(task[h].results.errors) = 2
        /\ AllErrored(task[h].results)
        /\ ResultsReply(h).message.body = "couldnt_check"

\* C14: in the reply with the results of a search the register button is
\* present if and only if the available bucket is non-empty, the
\* try-variations button if and only if the unavailable or the errors bucket
\* is non-empty, the new-search button always, no button twice, and there are
\* never more than 3 buttons.
C14_ResultButtons ==
    \A h \in Slots :
        Replied(h) =>
            LET buttons == ResultsReply(h).buttons
                results == task[h].results
            IN  /\ "register_domain" \in Range(buttons) <=> results.available # <<>>
                /\ "try_variations" \in Range(buttons) <=>
                       (results.unavailable # <<>> \/ results.errors # <<>>)
                /\ "new_search" \in Range(buttons)
                /\ Range(buttons) \subseteq {"register_domain", "try_variations", "new_search"}
                /\ NoRepeats(buttons)
                /\ Len(buttons) <= 3

\* a search with one domain available and one taken: all three buttons
C14_Witness ==
    \E h \in Slots :
        /\ Replied(h)
        /\ task[h].results.available # <<>>
        /\ task[h].results.unavailable # <<>>
        /\ ResultsReply(h).buttons = <<"register_domain", "try_variations", "new_search">>

(***************************************************************************)
(* Properties of the result formatter.                                     *)
(***************************************************************************)
Min(a, b) == IF a < b THEN a ELSE b

\* the lines of one kind of a formatted text, in their order
PartsOf(text, kind) == SelectSeq(text.message_parts, LAMBDA p : p.part = kind)

DomainsOf(entries) == [i \in 1..Len(entries) |-> entries[i].domain]

\* C15: for a batch result that is not all-errors the formatted text lists
\* exactly min(5, |available|) available domains (the first ones of the
\* bucket), lists the unavailable domains one by one only when they are at
\* most 3 and otherwise shows their count alone, and holds an error-count
\* note if and only if the errors bucket is non-empty.
C15_ListingCaps ==
    \A h \in Slots :
        /\ task[h].kind = "format" /\ task[h].pc = "done"
        /\ ~AllErrored(task[h].results)
        => LET text == task[h].results_text
               results == task[h].results
           IN  /\ text.body = "results"
               /\ Len(PartsOf(text, "available")) = Min(5, Len(results.available))
               /\ DomainsOf(PartsOf(text, "available")) =
                      DomainsOf(Take(results.available, 5))
               /\ Len(PartsOf(text, "unavailable_count")) =
                      (IF results.unavailable # <<>> THEN 1 ELSE 0)
               /\ \A p \in Range(PartsOf(text, "unavailable_count")) :
                      p.count = Len(results.unavailable)
               /\ DomainsOf(PartsOf(text, "unavailable")) =
                      (IF Len(results.unavailable) <= 3
                       THEN DomainsOf(results.unavailable) ELSE <<>>)
               /\ PartsOf(text, "errors_count") # <<>> <=> results.errors # <<>>
               /\ \A p \in Range(PartsOf(text, "errors_count")) :
                      p.count = Len(results.errors)

\* 6 available, 4 unavailable and 1 failed domain: 5 available domains
\* listed, the unavailable ones counted only, the error note present
C15_Witness ==
    \E h \in Slots :
        /\ task[h].kind = "format" /\ task[h].pc = "done"
        /\ Len(task[h].results.available) = 6
        /\ Len(task[h].results.unavailable) = 4
        /\ Len(task[h].results.errors) = 1
        /\ Len(PartsOf(task[h].results_text, "available")) = 5
        /\ PartsOf(task[h].results_text, "unavailable") = <<>>
        /\ Len(PartsOf(task[h].results_text, "errors_count")) = 1

(***************************************************************************)
(* Properties of the requests and of the messages sent.                    *)
(***************************************************************************)
\* C16 as claimed: a request has include_suggestions = true exactly when its
\* batch holds a single domain, and include_pricing = true always.  Refuted
\* by any single-domain search: its request has include_suggestions = false.
C16_SuggestionsForSingleDomain ==
    \A h \in Slots :
        \A i \in 1..Len(task[h].params) :
            /\ task[h].params[i].include_pricing = "true"
            /\ task[h].params[i].include_suggestions = "true"
                   <=> Len(task[h].domains) = 1

\* what the requests hold instead: every lookup request, of a single-domain
\* search and of a fan-out search alike, names its domain (URL-encoded), has
\* the pricing flag enabled and the suggestions flag disabled
C16_SuggestionsNeverEnabled ==
    \A h \in Slots :
        /\ Len(task[h].params) = Len(task[h].requests)
        /\ \A i \in 1..Len(task[h].params) :
               /\ task[h].params[i].domain = task[h].requests[i]
               /\ task[h].params[i].include_pricing = "true"
               /\ task[h].params[i].include_suggestions = "false"

\* the request of a search of the single domain shop.co.ke is out
C16_SingleDomainRequest ==
    \E h \in Slots :
        /\ TextHandler(h)
        /\ parse_domain_input(task[h].domain_input).type = "partial_extension"
        /\ Len(task[h].domains) = 1
        /\ Len(task[h].params) = 1
        /\ task[h].params[1].domain = <<"s", "h", "o", "p", ".", "c", "o", ".", "k", "e">>
        /\ task[h].params[1].include_suggestions = "false"

\* the welcome messages the handler of slot h has sent
Welcomes(h) ==
    {task[h].sent[i].message : i \in {j \in 1..Len(task[h].sent) :
                                         task[h].sent[j].message.body = "welcome"}}

\* C17 as claimed: the welcome message sent in answer to a greeting holds
\* each of the 9 keys of DOMAIN_EXTENSIONS.  Refuted by every greeting: the
\* welcome text lists the first 6 keys only.
C17_WelcomeListsAllExtensions ==
    \A h \in Slots :
        \A message \in Welcomes(h) :
            Range(DOMAIN_EXTENSIONS) \subseteq Range(message.extensions)

\* what the welcome message holds instead: the first 6 keys, so that .sc.ke,
\* .me.ke and .info.ke are missing; the reply to view_extensions holds all 9
C17_WelcomeListsSixExtensions ==
    \A h \in Slots :
        /\ \A message \in Welcomes(h) :
               /\ message.extensions = Take(DOMAIN_EXTENSIONS, 6)
               /\ Range(DOMAIN_EXTENSIONS) \ Range(message.extensions) =
                      {<<".", "s", "c", ".", "k", "e">>, <<".", "m", "e", ".", "k", "e">>, <<".", "i", "n", "f", "o", ".", "k", "e">>}
        /\ ButtonHandler(h) /\ task[h].button_id = "view_extensions" =>
               /\ SentOnly(h, "extensions")
               /\ task[h].sent[1].message.extensions = DOMAIN_EXTENSIONS

\* "hi" of a user without a state entry has been answered
C17_FreshGreetingAnswered ==
    \E h \in Slots :
        /\ FreshGreeting(h) /\ task[h].input = <<"h", "i">>
        /\ Welcomes(h) # {}
        /\ Len(DOMAIN_EXTENSIONS) = 9

(***************************************************************************)
(* The dispatcher and the state machine.                                   *)
(***************************************************************************)
RECURSIVE WithLookups(_, _)
\* the handler of configuration c continued with the given lookup outcomes
WithLookups(c, outcomes) ==
    IF c.t.pc = "lookup" /\ outcomes # <<>>
    THEN WithLookups(resume_batch(lookup_response(c, Head(outcomes))), Tail(outcomes))
    ELSE c

\* the handler of slot h run again from what it found when it started, on
\* the same message and with the same lookup outcomes, but without
\* credentials: every message it sends is dropped
Undelivered(h) ==
    LET t == task[h]
        u == t.sender
        c == [us |-> IF t.entry.known THEN (u :> t.entry.state) ELSE <<>>,
              cache |-> t.entry.cache,
              creds |-> FALSE,
              t |-> [IdleTask EXCEPT !.kind = t.kind, !.sender = u,
                                     !.input = t.input, !.button_id = t.button_id,
                                     !.entry = t.entry]]
    IN  WithLookups(IF t.kind = "text"
                    THEN handle_user_message(c, u, strip(t.input))
                    ELSE handle_button_click(c, u, t.button_id),
                    t.outcomes)

\* C18: the user states and the cache do not depend on the dispatcher.  When
\* a handler has returned, the user's state, the cache, the batch result and
\* the messages handed over are those of the same handler run on the same
\* message with the same lookup outcomes and every send dropped, whether its
\* own sends succeeded, failed or raised; a search is at RESULTS then; and
\* every message is posted once with credentials and never without.
C18_DispatcherIndependent ==
    \A h \in Slots :
        (TextHandler(h) \/ ButtonHandler(h)) =>
            /\ task[h].posts = (IF credentials THEN Len(task[h].sent) ELSE 0)
            /\ task[h].pc = "done" =>
                   LET r == Undelivered(h)
                       u == task[h].sender
                   IN  /\ r.t.pc = "done"
                       /\ u \in DOMAIN user_states <=> u \in DOMAIN r.us
                       /\ u \in DOMAIN user_states => user_states[u] = r.us[u]
                       /\ domain_cache = r.cache
                       /\ task[h].results = r.t.results
                       /\ task[h].sent = r.t.sent
                       /\ task[h].domains # <<>> => StateOf(h).step = "results"

\* a search has ended at RESULTS although the send of its reply failed
C18_Witness ==
    \E h \in Slots :
        /\ Replied(h) /\ task[h].pc = "done"
        /\ credentials /\ task[h].ret = "False"
        /\ task[h].posts = 2
        /\ task[h].results.available # <<>>
        /\ StateOf(h).step = "results"
        /\ domain_cache # task[h].entry.cache

(***************************************************************************)
(* Properties of the parser.                                               *)
(***************************************************************************)
\* slot h holds the result of a call of parse_domain_input on its own
Parsed(h) == task[h].kind = "parse" /\ task[h].pc = "done"

\* text is the name B followed by a dot and E
IsDotted(text, B, E) == text = B \o <<".">> \o E

\* the name in front of the last Len(E) + 1 characters of text
NameBefore(text, E) == SubSeq(text, 1, Len(text) - Len(E) - 1)

\* C19: for every supported extension E and every base name B over letters,
\* digits and hyphen, parse_domain_input(B + "." + E) is of type full_domain,
\* never partial_extension or base_domain, with base B (in lower case, as
\* the input is lower-cased before matching), extension E and
\* domains_to_check the one fully qualified domain.
C19_FullDomainParsed ==
    \A h \in Slots :
        Parsed(h) =>
            \A E \in FullExtensions :
                LET text == task[h].domain_input
                    B == NameBefore(text, E)
                IN  B \in Names /\ IsDotted(text, B, E) =>
                        task[h].parsed =
                            [type |-> "full_domain", base |-> lower(B), extension |-> E,
                             domains_to_check |-> <<lower(B) \o <<".">> \o E>>]

\* "a-0.info.ke" and "Z.co.ke" have been parsed
C19_Witness ==
    \E h \in Slots :
        /\ Parsed(h)
        /\ \/ /\ task[h].domain_input = <<"a", "-", "0", ".", "i", "n", "f", "o", ".", "k", "e">>
              /\ task[h].parsed.base = <<"a", "-", "0">>
              /\ task[h].parsed.extension = <<"i", "n", "f", "o", ".", "k", "e">>
           \/ /\ task[h].domain_input = <<"Z", ".", "c", "o", ".", "k", "e">>
              /\ task[h].parsed.base = <<"z">>
        /\ task[h].parsed.type = "full_domain"

\* C20: for every bare name B (letters, digits, hyphen, no dot),
\* parse_domain_input(B) is of type base_domain with base B (in lower case)
\* and a domains_to_check list of 9 pairwise distinct elements, the i-th of
\* which is B followed by the i-th supported extension.
C20_BareNameFanOut ==
    \A h \in Slots :
        Parsed(h) /\ task[h].domain_input \in Names =>
            LET B == lower(task[h].domain_input)
                parsed == task[h].parsed
            IN  /\ parsed.type = "base_domain"
                /\ parsed.base = B
                /\ parsed.extension = None
                /\ Len(parsed.domains_to_check) = 9
                /\ Len(parsed.domains_to_check) = Cardinality(FullExtensions)
                /\ NoRepeats(parsed.domains_to_check)
                /\ \A i \in 1..Len(parsed.domains_to_check) :
                       /\ parsed.domains_to_check[i] = B \o DOMAIN_EXTENSIONS[i]
                       /\ \E E \in FullExtensions :
                              IsDotted(parsed.domains_to_check[i], B, E)

\* the bare name "a-0" has been parsed
C20_Witness ==
    \E h \in Slots :
        /\ Parsed(h)
        /\ task[h].domain_input = <<"a", "-", "0">>
        /\ task[h].parsed.type = "base_domain"
        /\ task[h].parsed.domains_to_check[9] = <<"a", "-", "0", ".", "i", "n", "f", "o", ".", "k", "e">>

\* C21: for every base name B and every short code S of
\* DOMAIN_PATTERNS['partial_extension'], parse_domain_input(B + "." + S) is of
\* type partial_extension with base B (in lower case), extension S + ".ke"
\* and domains_to_check the one domain B + "." + S + ".ke"; parsing that
\* domain again yields full_domain with the same base and extension; a name
\* followed by a dot and an ending that is neither a supported extension nor
\* a short code is invalid, never a base_domain.
C21_ShortCodeExpanded ==
    \A h \in Slots :
        Parsed(h) =>
            LET text == task[h].domain_input
                parsed == task[h].parsed
            IN  /\ \A S \in PartialExtensions :
                       LET B == NameBefore(text, S)
                           full_ext == S \o <<".", "k", "e">>
                           expanded == lower(B) \o <<".">> \o full_ext
                       IN  B \in Names /\ IsDotted(text, B, S) =>
                               /\ parsed = [type |-> "partial_extension",
                                            base |-> lower(B),
                                            extension |-> full_ext,
                                            domains_to_check |-> <<expanded>>]
                               /\ full_ext \in FullExtensions
                               /\ parse_domain_input(expanded) =
                                      [type |-> "full_domain", base |-> lower(B),
                                       extension |-> full_ext,
                                       domains_to_check |-> <<expanded>>]
                /\ \A E \in OtherExtensions :
                       LET B == NameBefore(text, E)
                       IN  B \in Names /\ IsDotted(text, B, E) =>
                               /\ parsed.type = "invalid"
                               /\ parsed.domains_to_check = <<>>

\* "Z-0.info" has been expanded to "z-0.info.ke", and "a.com" and "a.co.uk"
\* have been rejected
C21_Witness ==
    \E h \in Slots :
        /\ Parsed(h)
        /\ \/ /\ task[h].domain_input = <<"Z", "-", "0", ".", "i", "n", "f", "o">>
              /\ task[h].parsed.type = "partial_extension"
              /\ task[h].parsed.domains_to_check = << <<"z", "-", "0", ".", "i", "n", "f", "o", ".", "k", "e">> >>
           \/ /\ task[h].domain_input \in { <<"a", ".", "c", "o", "m">>, <<"a", ".", "c", "o", ".", "u", "k">> }
              /\ task[h].parsed.type = "invalid"

(***************************************************************************)
(* Concurrent deliveries.                                                  *)
(***************************************************************************)
\* in this step the handler of slot h passes line 483 of process_domain_search
StartsSearch(h) == task[h].base = None /\ task'[h].base # None

\* in this step the handler of slot h passes line 506 of process_domain_search
CompletesSearch(h) ==
    task[h].pc # "done" /\ task'[h].pc = "done" /\ task'[h].cont = "finish"

\* C22: concurrent searches of one user race on the state, and the last
\* writer wins: line 483 sets current_domain to the base of the search that
\* executes it, whatever the searches in progress, and line 506 stores the
\* results of the search that executes it and leaves current_domain as the
\* other writers left it.  So step = results with last_results of one search
\* and current_domain of the other is reachable (C22_Witness).
C22_LastWriterWins ==
    [][\A h \in Slots :
          LET u == task'[h].sender
          IN  /\ StartsSearch(h) =>
                     user_states'[u].current_domain = task'[h].base
              /\ CompletesSearch(h) =>
                     /\ user_states'[u].step = "results"
                     /\ user_states'[u].last_results = task'[h].results
                     /\ ~StartsSearch(h) =>
                            user_states'[u].current_domain = user_states[u].current_domain]_vars

\* the search for "shop.ke" has stored its results while current_domain is
\* "mart", the base of the search in the other slot
C22_Witness ==
    \E h \in Slots, h2 \in Slots :
        LET u == task[h].sender
        IN  /\ h # h2
            /\ task[h].pc = "done" /\ task[h].cont = "finish"
            /\ task[h].base = <<"s", "h", "o", "p">>
            /\ task[h2].sender = u /\ task[h2].base = <<"m", "a", "r", "t">>
            /\ user_states[u].step = "results"
            /\ user_states[u].last_results = task[h].results
            /\ \E i \in 1..Len(task[h].results.available) :
                   task[h].results.available[i].domain = <<"s", "h", "o", "p", ".", "k", "e">>
            /\ user_states[u].current_domain = <<"m", "a", "r", "t">>

\* in this step the handler of slot h issues its first GET
FirstLookup(h) == task[h].requests = <<>> /\ task'[h].requests # <<>>

\* check_domains_batch has gone through every domain of the parsed query
WholeBatch(t) ==
    /\ t.domains = Take(t.parsed.domains_to_check, MaxBatch)
    /\ t.pos = Len(t.domains) + 1
    /\ Len(t.results.available) + Len(t.results.unavailable)
           + Len(t.results.errors) = Len(t.domains)

\* no other search of the same user has written the state since the search
\* of slot h passed line 483
Alone(h) ==
    \/ StartsSearch(h)
    \/ LET u == task[h].sender
       IN  /\ user_states[u].search_history = task[h].entry.state.search_history
           /\ \A h2 \in Slots \ {h} :
                  ~(task[h2].pc # "idle" /\ task[h2].sender = u /\ task[h2].base # None)

\* the order of the writes and the lookups of the search of slot h in one
\* step; own tells whether the appended value has to be current_domain
SearchOrdering(h, own) ==
    LET u == task'[h].sender
        t == task'[h]
    IN  /\ StartsSearch(h) =>
               /\ t.parsed.type # "invalid" /\ t.base = t.parsed.base
               /\ task[h].requests = <<>>
               /\ user_states'[u].current_domain = t.base
               /\ IF CompletesSearch(h) THEN user_states'[u].step = "results"
                  ELSE user_states'[u].step = "searching"
        /\ FirstLookup(h) => t.base # None /\ t.base = t.parsed.base
        /\ CompletesSearch(h) =>
               /\ WholeBatch(t)
               /\ user_states'[u].step = "results"
               /\ user_states'[u].last_results = t.results
               /\ user_states'[u].search_history =
                      Append(View(user_states, u).search_history, t.base)
               /\ own =>
                      user_states'[u].search_history[Len(user_states'[u].search_history)]
                          = user_states'[u].current_domain

\* a user's step becomes results only by a search that completes
ResultsOnlyByCompletion ==
    \A u \in Users :
        /\ View(user_states', u).step = "results"
        /\ View(user_states, u).step # "results"
        => \E h \in Slots : CompletesSearch(h) /\ task'[h].sender = u

\* C23 as claimed: for every valid query, step = searching and
\* current_domain = the parsed base are written before the first lookup is
\* issued, step becomes results only after check_domains_batch has gone
\* through the whole batch, and that update stores last_results and appends
\* to search_history a value equal to the user's current_domain.  Refuted by
\* a search that completes after another search of the same user has
\* overwritten current_domain.
C23_AppendsCurrentDomain ==
    [][ResultsOnlyByCompletion /\ \A h \in Slots : SearchOrdering(h, TRUE)]_vars

\* C23: as above, the value appended being the base this search parsed and
\* wrote to current_domain; it is still the user's current_domain when no
\* other search of the same user has written the state in between.
C23_SearchOrdering ==
    [][ResultsOnlyByCompletion /\ \A h \in Slots : SearchOrdering(h, Alone(h))]_vars

\* the search for "shop" has completed on its own after its two lookups:
\* results stored, "shop" appended, current_domain still "shop"
C23_Witness ==
    \E h \in Slots :
        LET u == task[h].sender
        IN  /\ task[h].pc = "done" /\ task[h].cont = "finish"
            /\ task[h].base = <<"s", "h", "o", "p">>
            /\ Len(task[h].outcomes) = 2
            /\ task[h].posts = 2
            /\ \A h2 \in Slots \ {h} : task[h2].pc = "idle"
            /\ user_states[u].step = "results"
            /\ user_states[u].last_results = task[h].results
            /\ user_states[u].search_history = << <<"s", "h", "o", "p">> >>
            /\ user_states[u].current_domain = <<"s", "h", "o", "p">>

\* C24 as claimed: once a domain has an entry in domain_cache, no step removes
\* the entry or replaces its record by a different one, under any
\* interleaving of concurrent searches.  Refuted by two searches that both
\* miss the cache for one domain and whose lookups answer differently: line
\* 245 overwrites the entry the first response created.
C24_CacheNeverInvalidated ==
    [][\A d \in DOMAIN domain_cache :
           d \in DOMAIN domain_cache' /\ domain_cache'[d] = domain_cache[d]]_vars

\* what does hold under every interleaving: an entry is never removed
C24_EntryNeverRemoved ==
    [][DOMAIN domain_cache \subseteq DOMAIN domain_cache']_vars

\* two lookups of one domain are in flight at once
C24_OverlappingLookups ==
    \E h \in Slots, h2 \in Slots :
        /\ h # h2
        /\ task[h].pc = "lookup" /\ task[h2].pc = "lookup"
        /\ task[h].domains[task[h].pos] = task[h2].domains[task[h2].pos]

\* s is a prefix of t
IsPrefix(s, t) == Len(s) <= Len(t) /\ SubSeq(t, 1, Len(s)) = s

\* C25: search_history is append-only and loses no update: in every step,
\* under any interleaving of the handlers of a user, the previous
\* search_history is a prefix of the new one and it grows by exactly one
\* element for each search of that user that reaches RESULTS in the step (by
\* none otherwise), so its length is the number of the user's completed
\* valid searches.
C25_HistoryAppendOnly ==
    [][\A u \in Users :
           LET old == View(user_states, u).search_history
               new == View(user_states', u).search_history
               completed == {h \in Slots : CompletesSearch(h) /\ task'[h].sender = u}
           IN  /\ IsPrefix(old, new)
               /\ Len(new) = Len(old) + Cardinality(completed)
               /\ \A h \in completed : new = Append(old, task'[h].base)]_vars

\* two searches of one user that both started on an empty history have
\* both completed, and both are in the history
C25_Witness ==
    \E u \in Users :
        /\ \A h \in Slots :
               /\ task[h].sender = u
               /\ task[h].pc = "done" /\ task[h].cont = "finish"
               /\ task[h].entry.state.search_history = <<>>
        /\ task["h1"].base # task["h2"].base
        /\ user_states[u].search_history \in
               { <<task["h1"].base, task["h2"].base>>, <<task["h2"].base, task["h1"].base>> }

(***************************************************************************)
(* The user state.                                                         *)
(***************************************************************************)
Steps == {"greeting", "searching", "results"}

\* the handler of slot h has sent the search prompt in this step
Prompts(h) ==
    \E i \in 1..Len(task'[h].sent) : task'[h].sent[i].message.body = "search_prompt"

\* the state that the step of slot h leaves for a user it has just created:
\* the defaults of get_user_state with the writes of the handler on top
CreatedState(h) ==
    [NewUserState EXCEPT
        !.step = IF CompletesSearch(h) THEN "results"
                 ELSE IF StartsSearch(h) \/ Prompts(h) THEN "searching"
                 ELSE "greeting",
        !.current_domain = IF StartsSearch(h) THEN task'[h].base ELSE None,
        !.search_history = IF CompletesSearch(h) THEN <<task'[h].base>> ELSE <<>>]

\* C26: in every reachable state the step of every user is one of greeting,
\* searching, results; a state entry is created by the first handler of the
\* user that asks for it, with step greeting, an empty search_history and no
\* current_domain under whatever that handler writes in the same step; and
\* no step removes a user's entry.
C26_StepsAndLifecycle ==
    /\ [](\A u \in DOMAIN user_states : user_states[u].step \in Steps)
    /\ [][/\ DOMAIN user_states \subseteq DOMAIN user_states'
          /\ \A u \in DOMAIN user_states' \ DOMAIN user_states :
                 \E h \in Slots :
                     /\ task[h].pc = "idle" /\ task'[h].sender = u
                     /\ ~task'[h].entry.known
                     /\ \A k \in DOMAIN NewUserState :
                            user_states'[u][k] = CreatedState(h)[k]]_vars

\* the first thing a user did was to click try_variations: the entry exists
\* and holds the defaults
C26_Witness ==
    \E h \in Slots :
        LET u == task[h].sender
        IN  /\ task[h].button_id = "try_variations"
            /\ ~task[h].entry.known
            /\ u \in DOMAIN user_states
            /\ user_states[u].step = "greeting"
            /\ user_states[u].search_history = <<>>
            /\ user_states[u].current_domain = None

\* the buttons that only inform
InfoButtons ==
    ("register_domain" :> "register") @@ ("view_extensions" :> "extensions")
        @@ ("visit_website" :> "website")

\* C27: a click on register_domain, like one on view_extensions or
\* visit_website, sends its informational message and nothing else: no field
\* of the user's state changes (so the step is the one before the click,
\* greeting for a user without a state), no state entry is created for an
\* unknown user, and domain_cache is unchanged.
C27_InfoButtonsLeaveState ==
    \A h \in Slots :
        ButtonHandler(h) /\ task[h].button_id \in DOMAIN InfoButtons =>
            LET u == task[h].sender
            IN  /\ task[h].pc \in {"send", "done"}
                /\ Len(task[h].sent) = 1
                /\ task[h].sent[1].to = u
                /\ task[h].sent[1].message.body = InfoButtons[task[h].button_id]
                /\ task[h].requests = <<>>
                /\ (u \in DOMAIN user_states) = task[h].entry.known
                /\ u \in DOMAIN user_states => user_states[u] = task[h].entry.state
                /\ StateOf(h).step = task[h].entry.state.step
                /\ domain_cache = task[h].entry.cache

\* register_domain has been clicked after a search and answered, the user
\* still at results
C27_Witness ==
    \E h \in Slots :
        /\ ButtonHandler(h) /\ task[h].button_id = "register_domain"
        /\ task[h].pc = "done"
        /\ task[h].sent[1].message.body = "register"
        /\ task[h].entry.known
        /\ StateOf(h).step = "results"
        /\ domain_cache # <<>>

\* register_domain has been clicked by a user without a state, who still
\* has none
C27_UnknownUserClick ==
    \E h \in Slots :
        /\ ButtonHandler(h) /\ task[h].button_id = "register_domain"
        /\ task[h].pc = "done"
        /\ ~task[h].entry.known
        /\ task[h].sender \notin DOMAIN user_states

\* the words of line 412
MoreWords == { <<"m", "o", "r", "e">>, <<"o", "t", "h", "e", "r">>, <<"a", "l", "t", "e", "r", "n", "a", "t", "i", "v", "e", "s">> }

\* slot h handles one of the words of line 412 for a user who was at results
\* when the handler started
FollowUpAtResults(h) ==
    /\ TextHandler(h)
    /\ lower(strip(task[h].input)) \in MoreWords
    /\ task[h].entry.state.step = "results"

\* C28: in every reachable state, under any interleaving of the handlers, a
\* user whose step is results has a non-empty current_domain, a stored
\* last_results and a non-empty search_history; so a follow-up "more",
\* "other" or "alternatives" at results always finds a domain and searches it
\* again.
C28_ResultsHasDomain ==
    /\ \A u \in DOMAIN user_states :
           user_states[u].step = "results" =>
               /\ user_states[u].current_domain # None
               /\ user_states[u].current_domain # <<>>
               /\ MatchesName(user_states[u].current_domain)
               /\ "last_results" \in DOMAIN user_states[u]
               /\ user_states[u].search_history # <<>>
    /\ \A h \in Slots :
           FollowUpAtResults(h) =>
               /\ task[h].domain_input = task[h].entry.state.current_domain
               /\ task[h].base = task[h].entry.state.current_domain
               /\ task[h].parsed.type = "base_domain"
               /\ task[h].sent # <<>>
               /\ task[h].sent[1].message.body = "searching"

\* "more" has been handled for a user who was at results after a search for
\* "mart.co": "mart" is searched again and the user is at results once more
C28_Witness ==
    \E h \in Slots :
        /\ FollowUpAtResults(h)
        /\ task[h].entry.state.search_history = << <<"m", "a", "r", "t">> >>
        /\ task[h].base = <<"m", "a", "r", "t">>
        /\ task[h].pc = "done"
        /\ StateOf(h).step = "results"
        /\ Len(StateOf(h).search_history) = 2

\* a user is at results although a new_search click, handled while the
\* search was in progress, had set the step to searching in between
C28_ResultsAfterInterleaving ==
    \E h \in Slots, h2 \in Slots :
        /\ h # h2
        /\ task[h].pc = "done" /\ task[h].cont = "finish"
        /\ task[h2].sender = task[h].sender
        /\ task[h2].button_id = "new_search"
        /\ task[h2].entry.state.current_domain = task[h].base
        /\ task[h2].entry.state.search_history = <<>>
        /\ StateOf(h).step = "results"

(***************************************************************************)
(* Isolation of the users.                                                 *)
(***************************************************************************)
\* the user whose handler takes the step of slot h
Acting(h) == IF task'[h].pc = "idle" THEN task[h].sender ELSE task'[h].sender

Keys(ms) == {ms[i].message_id : i \in 1..Len(ms)}

RecordOf(ms, message_id) == ms[CHOOSE i \in 1..Len(ms) : ms[i].message_id = message_id]

\* the call of slot h found old records in ms of which those at the positions
\* of `removed` are gone from ms2: they are OldestRemoved records, none of
\* them updated later than a record that stayed
RemovedOldest(ms, ms2, removed) ==
    /\ Cardinality(removed) = OldestRemoved
    /\ \A i \in removed :
           \A j \in (1..Len(ms)) \ removed :
               ms[i].last_updated <= ms[j].last_updated
    /\ Len(ms2) <= Len(ms) - OldestRemoved + 1
    /\ Len(ms2) < MAX_STATUS_RECORDS

\* the positions of the records of ms that the call for message_id removed,
\* keys2 being the keys and ms2 the records after the call: their key is
\* gone, or it is the key of the call and its record was created anew
Removed(ms, ms2, keys2, message_id) ==
    {i \in 1..Len(ms) :
        \/ ms[i].message_id \notin keys2
        \/ /\ ms[i].message_id = message_id
           /\ Len(RecordOf(ms2, message_id).status_history) = 1}

\* C30: the message-status log is bounded: after any sequence of calls of
\* store_message_status it holds at most MAX_STATUS_RECORDS records, because
\* a call that finds MAX_STATUS_RECORDS records or more first removes the 100
\* records with the oldest last_updated; a call that finds fewer removes
\* none.
C30_StatusLogBounded ==
    /\ [](Len(message_statuses) <= MAX_STATUS_RECORDS)
    /\ [][\A h \in Slots :
              task[h].pc = "idle" /\ task'[h].kind = "status" =>
                  \A keys2 \in {Keys(message_statuses')} :
                  \A removed \in {Removed(message_statuses, message_statuses', keys2,
                                          task'[h].message_id)} :
                      IF Len(message_statuses) >= MAX_STATUS_RECORDS
                      THEN RemovedOldest(message_statuses, message_statuses', removed)
                      ELSE /\ removed = {}
                           /\ Len(message_statuses') <= Len(message_statuses) + 1]_vars

\* a call for a new id has found the log full, with its first records
\* updated last: the records 51 to 150 are gone, the first record and the new
\* one are there
C30_Witness ==
    \E h \in Slots :
        /\ task[h].kind = "status" /\ task[h].pc = "done"
        /\ task[h].message_id = MAX_STATUS_RECORDS + 1
        /\ Len(message_statuses) = MAX_STATUS_RECORDS - OldestRemoved + 1
        /\ Keys(message_statuses) \cap (1..(Refreshed + OldestRemoved + 1))
               = (1..Refreshed) \cup {Refreshed + OldestRemoved + 1}
        /\ message_statuses[Len(message_statuses)].message_id = MAX_STATUS_RECORDS + 1

(***************************************************************************)
(* The status history.                                                     *)
(***************************************************************************)
\* in this step slot h calls store_message_status for a message id that the
\* log holds
UpdatesTracked(h) ==
    /\ task[h].pc = "idle" /\ task'[h].kind = "status"
    /\ HasKey(message_statuses, task'[h].message_id)

\* new is old with one status appended: the earlier entries stay in order,
\* created_at is kept, and current_status and last_updated are those of the
\* new entry
Extends(old, new) ==
    LET n == Len(old.status_history)
    IN  /\ Len(new.status_history) = n + 1
        /\ SubSeq(new.status_history, 1, n) = old.status_history
        /\ new.created_at = old.created_at
        /\ new.recipient = old.recipient
        /\ new.current_status = new.status_history[n + 1].status
        /\ new.last_updated = new.status_history[n + 1].timestamp

\* current_status is the status of the last history entry, in every record
CurrentIsLast ==
    \A i \in 1..Len(message_statuses) :
        LET r == message_statuses[i]
        IN  /\ r.status_history # <<>>
            /\ r.current_status = r.status_history[Len(r.status_history)].status

\* the record of the message id survives the cleanup of lines 99-104: the log
\* is below its capacity, or OldestRemoved records come before it in the
\* sorted list
OutlivesCleanup(ms, message_id) ==
    \/ Len(ms) < MAX_STATUS_RECORDS
    \/ \E i \in 1..Len(ms) :
           /\ ms[i].message_id = message_id
           /\ Cardinality({j \in 1..Len(ms) :
                              \/ ms[j].last_updated < ms[i].last_updated
                              \/ ms[j].last_updated = ms[i].last_updated /\ j < i})
                  >= OldestRemoved

\* C31 as claimed: a call of store_message_status for a message id that is
\* already tracked appends the new status to the existing status_history (the
\* earlier entries stay, in order, and created_at is kept), and
\* current_status is always the status of the last history entry; for every
\* call, the log at its capacity included.  Refuted by a call, on a full log,
\* for a message whose record is one of the 100 with the oldest last_updated:
\* the cleanup deletes the record before line 107 looks for it, and the
\* record is created anew.
C31_HistoryPreserved ==
    /\ []CurrentIsLast
    /\ [][\A h \in Slots :
              UpdatesTracked(h) =>
                  /\ HasKey(message_statuses', task'[h].message_id)
                  /\ \A old \in {RecordOf(message_statuses, task'[h].message_id)} :
                     \A new \in {RecordOf(message_statuses', task'[h].message_id)} :
                         Extends(old, new)]_vars

\* what does hold: the history is preserved whenever the record outlives the
\* cleanup
C31_HistoryPreservedUnlessCleaned ==
    /\ []CurrentIsLast
    /\ [][\A h \in Slots :
              /\ UpdatesTracked(h)
              /\ OutlivesCleanup(message_statuses, task'[h].message_id)
              => /\ HasKey(message_statuses', task'[h].message_id)
                 /\ \A old \in {RecordOf(message_statuses, task'[h].message_id)} :
                    \A new \in {RecordOf(message_statuses', task'[h].message_id)} :
                        Extends(old, new)]_vars

\* on a full log the last stored message has been updated: its record holds
\* both statuses
C31_UpdatedAtCapacity ==
    \E h \in Slots :
        /\ task[h].kind = "status" /\ task[h].pc = "done"
        /\ task[h].message_id = MAX_STATUS_RECORDS
        /\ Len(message_statuses) = MAX_STATUS_RECORDS - OldestRemoved
        /\ Len(RecordOf(message_statuses, MAX_STATUS_RECORDS).status_history) = 2

\* on a full log the first stored message has been updated: its record was
\* created anew, with the new status alone
C31_HistoryLost ==
    \E h \in Slots :
        /\ task[h].kind = "status" /\ task[h].pc = "done"
        /\ task[h].message_id = 1
        /\ Len(message_statuses) = MAX_STATUS_RECORDS - OldestRemoved + 1
        /\ message_statuses[Len(message_statuses)].message_id = 1
        /\ Len(message_statuses[Len(message_statuses)].status_history) = 1

====
